---- MODULE Spec2Model ----
(***************************************************************************)
(* Atrium access-control core: the Move modules atrium::identity,          *)
(* atrium::space (src/contract/sources/identity.move) and                  *)
(* atrium::subscription (src/unnamed/part_014).                            *)
(*                                                                         *)
(* One action per public / entry function.  A Move abort reverts the whole *)
(* transaction, so an aborting call changes nothing but `last`, the record *)
(* of the most recent call (its arguments, its abort code or "ok", and the *)
(* values it returned).  `prev` remembers the call before it when that was *)
(* a successful renewal.                                                   *)
(*                                                                         *)
(* u64 values are narrowed to 31 bits (TLC integers are 32-bit); checked   *)
(* arithmetic aborts on overflow exactly as Move's does, with U64_MAX the  *)
(* all-ones word.                                                          *)
(***************************************************************************)
EXTENDS Integers, Sequences, FiniteSets, TLC

\* ---------------------------------------------------------------- bounds
NumAddr == 2
MaxSpaces == 2
MaxTicks == 2
MaxSubscriptions == 2
MaxRenewSubscriptions == 1
MaxRenewals == 2
MaxVideos == 1
MaxEdits == 3
MaxInputChanges == 2
MaxRenders == 3

\* ------------------------------------------------------ program constants
ONE_DAY_MS == 86400000
SPACE_INIT_FEE == 100000000
U64_MAX == 2147483647

\* ------------------------------------------------------------ input sets
Addr == 1..NumAddr
\* std::option
none == <<>>
some(x) == <<x>>
is_some(o) == o # <<>>
destroy_some(o) == o[1]
AvatarBlobs == {"", "glb1"}
ImageBlobs == {"", "img1"}
Prices == {0, 100}
\* <<payment.value, days>> pairs offered to subscribe and renew_subscription
Offers == {<<7, 0>>, <<99, 1>>, <<500, 5>>, <<700, 5>>}
\* offers whose days or price run out of the u64 range: 24 days overflow the
\* sum with the clock, 25 days the product with ONE_DAY_MS, 30000000 days
\* the product with a price of 100
LongOffers == {<<500, 5>>, <<2400, 24>>, <<2400, 25>>, <<7, 30000000>>}
InitPayments == {SPACE_INIT_FEE - 1, SPACE_INIT_FEE, SPACE_INIT_FEE + 7}
\* the k-th advance of the clock: a day, then a millisecond, in turn
ClockStep(k) == IF k % 2 = 1 THEN ONE_DAY_MS ELSE 1
Clock0 == ONE_DAY_MS

VARIABLES
    now,              \* sui::clock::Clock.timestamp_ms
    identityRegistry, \* identity::IdentityRegistry
    identities,       \* the Identity objects, by object id
    spaceRegistry,    \* space::SpaceRegistry
    spaces,           \* the shared Space objects, by object id
    ownerships,       \* the SpaceOwnership objects, by object id
    fanRegistry,      \* space::FanRegistry.fans
    registry,         \* subscription::SubscriptionRegistry
    subscriptions,    \* the Subscription objects, by object id
    treasury,         \* balance of @protocol_treasury
    ticks,            \* number of clock advances so far
    renewals,         \* number of successful renewals so far
    last,             \* the most recent call and its outcome
    prev,             \* the call before `last`, kept when a successful renewal
    secureContent,    \* a mounted useSecureContent: inputs, ref and React state
    asyncData         \* a mounted useAsyncData: inputs, React state and fetches

chain == <<identityRegistry, identities, spaceRegistry, spaces, ownerships,
           fanRegistry, registry, subscriptions, treasury>>
client == <<secureContent, asyncData>>
calls == <<now, ticks, renewals, last, prev>>
vars == <<now, identityRegistry, identities, spaceRegistry, spaces, ownerships,
          fanRegistry, registry, subscriptions, treasury, ticks, renewals, last, prev,
          secureContent, asyncData>>

\* ------------------------------------------------------ checked arithmetic
MulAborts(a, b) == a # 0 /\ b > U64_MAX \div a
\* mutant: u64 addition that does not abort
AddAborts_Never(a, b) == FALSE

AddAborts(a, b) == a > U64_MAX - b

\* sui::table: a Table is a function on the set of its keys
EmptyTable == <<>>
contains(t, k) == k \in DOMAIN t
add(t, k, v) == t @@ (k :> v)
remove(t, k) == [x \in (DOMAIN t) \ {k} |-> t[x]]

Init ==
    /\ now = Clock0
    /\ identityRegistry = [identities |-> EmptyTable, total_identities |-> 0,
                           total_creators |-> 0]
    /\ identities = <<>>
    /\ spaceRegistry = [spaces |-> <<>>, total_spaces |-> 0]
    /\ spaces = <<>>
    /\ ownerships = <<>>
    /\ fanRegistry = EmptyTable
    /\ registry = [subscriptions |-> EmptyTable, total_subscriptions |-> 0,
                   active_subscriptions |-> 0]
    /\ subscriptions = <<>>
    /\ treasury = 0
    /\ ticks = 0
    /\ renewals = 0
    /\ last = [op |-> "init", result |-> "ok"]
    /\ prev = [op |-> "none"]
    /\ secureContent = [mounted |-> FALSE]
    /\ asyncData = [mounted |-> FALSE]

\* what `last` keeps of an aborted call
failed(op, res) == [op |-> op, result |-> res]

\* `prev` after a call: the call that was `last`, if a successful renewal
Shift ==
    prev' = IF last.op = "renew_subscription" /\ last.result = "ok"
            THEN last ELSE [op |-> "none"]

\* the clock object is advanced by the chain, never by a transaction
AdvanceClock ==
    /\ ticks < MaxTicks
    /\ now' = now + ClockStep(ticks + 1)
    /\ ticks' = ticks + 1
    /\ last' = [op |-> "clock", result |-> "ok"]
    /\ Shift
    /\ UNCHANGED client
    /\ UNCHANGED renewals
    /\ UNCHANGED chain

\* ===================================================== atrium::identity

\* mutant: the registry is not consulted
mint_identity_abort_NoExistsCheck(sender, avatar_blob_id, image_blob_id) ==
    IF image_blob_id = "" THEN "EImageRequired" ELSE "ok"

mint_identity_abort(sender, avatar_blob_id, image_blob_id) ==
    IF contains(identityRegistry.identities, sender) THEN "EIdentityAlreadyExists"
    ELSE IF image_blob_id = "" THEN "EImageRequired"
    ELSE "ok"

mint_identity(sender, avatar_blob_id, image_blob_id) ==
    LET res == mint_identity_abort(sender, avatar_blob_id, image_blob_id)
        identity_id == Len(identities) + 1
        identity == [owner |-> sender,
                     bio |-> "bio0",
                     avatar_blob_id |-> IF avatar_blob_id = "" THEN none
                                        ELSE some(avatar_blob_id),
                     image_blob_id |-> image_blob_id,
                     is_creator |-> FALSE,
                     holder |-> sender]
    IN  /\ last' = IF res = "ok"
                   THEN [op |-> "mint_identity", sender |-> sender, result |-> res,
                         identity |-> identity_id]
                   ELSE failed("mint_identity", res)
        /\ Shift
        /\ UNCHANGED client
        /\ IF res = "ok"
           THEN /\ identities' = Append(identities, identity)
                /\ identityRegistry' =
                       [identityRegistry EXCEPT
                           !.identities = add(@, sender, identity_id),
                           !.total_identities = @ + 1]
           ELSE UNCHANGED <<identities, identityRegistry>>
        /\ UNCHANGED <<now, ticks, renewals, spaceRegistry, spaces, ownerships, fanRegistry,
                       registry, subscriptions, treasury>>

bind_avatar_abort(sender, identity) ==
    IF identity.owner # sender THEN "ENotIdentityOwner" ELSE "ok"

\* mutant: update_image without its emptiness assert
update_image_abort_NoImageCheck(sender, identity, image_blob_id) ==
    IF ~(identity.owner = sender) THEN "ENotIdentityOwner" ELSE "ok"

\* mutant: the avatar is written before the owner is checked, and stays
bind_avatar_BindsAnyway(sender, id, avatar_blob_id) ==
    LET res == bind_avatar_abort(sender, identities[id])
    IN  /\ last' = IF res = "ok"
                   THEN [op |-> "bind_avatar", sender |-> sender, identity |-> id,
                         avatar |-> avatar_blob_id, result |-> res]
                   ELSE failed("bind_avatar", res)
        /\ Shift
        /\ UNCHANGED client
        /\ identities' = [identities EXCEPT
                              ![id].avatar_blob_id = some(avatar_blob_id)]
        /\ UNCHANGED <<now, ticks, renewals, identityRegistry, spaceRegistry, spaces,
                       ownerships, fanRegistry, registry, subscriptions, treasury>>

bind_avatar(sender, id, avatar_blob_id) ==
    LET res == bind_avatar_abort(sender, identities[id])
    IN  /\ last' = IF res = "ok"
                   THEN [op |-> "bind_avatar", sender |-> sender, identity |-> id,
                         avatar |-> avatar_blob_id, result |-> res]
                   ELSE failed("bind_avatar", res)
        /\ Shift
        /\ UNCHANGED client
        /\ IF res = "ok"
           THEN identities' = [identities EXCEPT
                                  ![id].avatar_blob_id = some(avatar_blob_id)]
           ELSE UNCHANGED identities
        /\ UNCHANGED <<now, ticks, renewals, identityRegistry, spaceRegistry, spaces,
                       ownerships, fanRegistry, registry, subscriptions, treasury>>

update_image_abort(sender, identity, image_blob_id) ==
    IF ~(identity.owner = sender) THEN "ENotIdentityOwner"
    ELSE IF image_blob_id = "" THEN "EImageRequired"
    ELSE "ok"

update_image(sender, id, image_blob_id) ==
    LET res == update_image_abort(sender, identities[id], image_blob_id)
    IN  /\ last' = IF res = "ok"
                   THEN [op |-> "update_image", sender |-> sender, identity |-> id,
                         result |-> res]
                   ELSE failed("update_image", res)
        /\ Shift
        /\ UNCHANGED client
        /\ IF res = "ok"
           THEN identities' = [identities EXCEPT ![id].image_blob_id = image_blob_id]
           ELSE UNCHANGED identities
        /\ UNCHANGED <<now, ticks, renewals, identityRegistry, spaceRegistry, spaces,
                       ownerships, fanRegistry, registry, subscriptions, treasury>>

\* mutant: update_bio without its owner assert
update_bio_abort_NoOwnerCheck(sender, identity) == "ok"

update_bio_abort(sender, identity) ==
    IF ~(identity.owner = sender) THEN "ENotIdentityOwner" ELSE "ok"

update_bio(sender, id, bio) ==
    LET res == update_bio_abort(sender, identities[id])
    IN  /\ last' = IF res = "ok"
                   THEN [op |-> "update_bio", sender |-> sender, identity |-> id,
                         result |-> res]
                   ELSE failed("update_bio", res)
        /\ Shift
        /\ UNCHANGED client
        /\ IF res = "ok"
           THEN identities' = [identities EXCEPT ![id].bio = bio]
           ELSE UNCHANGED identities
        /\ UNCHANGED <<now, ticks, renewals, identityRegistry, spaceRegistry, spaces,
                       ownerships, fanRegistry, registry, subscriptions, treasury>>

\* Identity has `store`: its holder can hand the object to another address
transfer_identity(sender, id, to) ==
    /\ identities' = [identities EXCEPT ![id].holder = to]
    /\ last' = [op |-> "transfer_identity", sender |-> sender, identity |-> id,
                result |-> "ok"]
    /\ Shift
    /\ UNCHANGED client
    /\ UNCHANGED <<now, ticks, renewals, identityRegistry, spaceRegistry, spaces,
                   ownerships, fanRegistry, registry, subscriptions, treasury>>

\* mutant: creators are counted only up to the number of identities
increment_creator_count_Guarded(reg) ==
    IF reg.total_creators < reg.total_identities
    THEN [reg EXCEPT !.total_creators = @ + 1]
    ELSE reg

increment_creator_count(reg) == [reg EXCEPT !.total_creators = @ + 1]

\* ======================================================== atrium::space

\* mutant: the fee assertion left out
initialize_space_abort_NoFeeCheck(payment) == "ok"

initialize_space_abort(payment) ==
    IF payment < SPACE_INIT_FEE THEN "EInsufficientPayment" ELSE "ok"

initialize_space(sender, subscription_price, payment) ==
    LET res == initialize_space_abort(payment)
        space_id == Len(spaces) + 1
        space == [name |-> "name0",
                  description |-> "desc0",
                  cover_image |-> "cover0",
                  config_quilt |-> "quilt0",
                  video_blob_ids |-> <<>>,
                  subscription_price |-> subscription_price,
                  creator |-> sender,
                  marketplace_kiosk_id |-> space_id,
                  created_at |-> now,
                  updated_at |-> now]
        ownership == [space_id |-> space_id, holder |-> sender]
    IN  /\ Len(spaces) < MaxSpaces
        /\ last' = IF res = "ok"
                   THEN [op |-> "initialize_space", sender |-> sender,
                         payment |-> payment, result |-> res, space |-> space_id,
                         ownership |-> Len(ownerships) + 1,
                         change |-> payment - SPACE_INIT_FEE]
                   ELSE failed("initialize_space", res)
        /\ Shift
        /\ UNCHANGED client
        /\ IF res = "ok"
           THEN /\ treasury' = treasury + SPACE_INIT_FEE
                /\ spaces' = Append(spaces, space)
                /\ spaceRegistry' =
                       [spaces |-> Append(spaceRegistry.spaces, space_id),
                        total_spaces |-> spaceRegistry.total_spaces + 1]
                /\ identityRegistry' = increment_creator_count(identityRegistry)
                /\ ownerships' = Append(ownerships, ownership)
           ELSE UNCHANGED <<treasury, spaces, spaceRegistry, identityRegistry,
                            ownerships>>
        /\ UNCHANGED <<now, ticks, renewals, identities, fanRegistry, registry,
                       subscriptions>>

update_space_config_abort(space_id, ownership) ==
    IF ownership.space_id # space_id THEN "ENotOwner" ELSE "ok"

\* the argument tuples tried: each field an Option, none = absent
ConfigUpdates ==
    {[new_name |-> none, new_description |-> none, new_cover_image |-> none,
      new_config_quilt |-> none, new_subscription_price |-> some(p)] : p \in Prices}
    \cup {[new_name |-> some("name1"), new_description |-> none,
           new_cover_image |-> some("cover1"), new_config_quilt |-> some("quilt1"),
           new_subscription_price |-> none]}

\* mutant: an absent name or price clears the field
space_after_update_ClearsAbsent(space, u, clock) ==
    [space EXCEPT
        !.name = IF is_some(u.new_name) THEN destroy_some(u.new_name) ELSE "",
        !.description = IF is_some(u.new_description)
                        THEN destroy_some(u.new_description) ELSE @,
        !.cover_image = IF is_some(u.new_cover_image)
                        THEN destroy_some(u.new_cover_image) ELSE @,
        !.config_quilt = IF is_some(u.new_config_quilt)
                         THEN destroy_some(u.new_config_quilt) ELSE @,
        !.subscription_price = IF is_some(u.new_subscription_price)
                               THEN destroy_some(u.new_subscription_price) ELSE 0,
        !.updated_at = clock]

\* the Space after the five optional writes and the timestamp
space_after_update(space, u, clock) ==
    [space EXCEPT
        !.name = IF is_some(u.new_name) THEN destroy_some(u.new_name) ELSE @,
        !.description = IF is_some(u.new_description)
                        THEN destroy_some(u.new_description) ELSE @,
        !.cover_image = IF is_some(u.new_cover_image)
                        THEN destroy_some(u.new_cover_image) ELSE @,
        !.config_quilt = IF is_some(u.new_config_quilt)
                         THEN destroy_some(u.new_config_quilt) ELSE @,
        !.subscription_price = IF is_some(u.new_subscription_price)
                               THEN destroy_some(u.new_subscription_price) ELSE @,
        !.updated_at = clock]

update_space_config(sender, space_id, own, u) ==
    LET res == update_space_config_abort(space_id, ownerships[own])
        space == spaces[space_id]
    IN  /\ last' = IF res = "ok"
                   THEN [op |-> "update_space_config", sender |-> sender,
                         space |-> space_id, ownership |-> own, result |-> res,
                         update |-> u]
                   ELSE failed("update_space_config", res)
        /\ Shift
        /\ UNCHANGED client
        /\ IF res = "ok"
           THEN spaces' = [spaces EXCEPT
                              ![space_id] = space_after_update(space, u, now)]
           ELSE UNCHANGED spaces
        /\ UNCHANGED <<now, ticks, renewals, identityRegistry, identities, spaceRegistry,
                       ownerships, fanRegistry, registry, subscriptions, treasury>>

\* mutant: the assertion left out
add_video_abort_NoAssert(space_id, ownership) == "ok"

add_video_abort(space_id, ownership) ==
    IF ~(ownership.space_id = space_id) THEN "ENotOwner" ELSE "ok"

add_video(sender, space_id, own, video_blob_id) ==
    LET res == add_video_abort(space_id, ownerships[own])
    IN  /\ last' = IF res = "ok"
                   THEN [op |-> "add_video", sender |-> sender, space |-> space_id,
                         ownership |-> own, result |-> res]
                   ELSE failed("add_video", res)
        /\ Shift
        /\ UNCHANGED client
        /\ IF res = "ok"
           THEN spaces' = [spaces EXCEPT
                              ![space_id].video_blob_ids = Append(@, video_blob_id),
                              ![space_id].updated_at = now]
           ELSE UNCHANGED spaces
        /\ UNCHANGED <<now, ticks, renewals, identityRegistry, identities, spaceRegistry,
                       ownerships, fanRegistry, registry, subscriptions, treasury>>

record_content_abort(space_id, ownership) ==
    IF ~(ownership.space_id = space_id) THEN "ENotOwner" ELSE "ok"

\* record_content only emits an event: no object is written
record_content(sender, space_id, own) ==
    LET res == record_content_abort(space_id, ownerships[own])
    IN  /\ last' = IF res = "ok"
                   THEN [op |-> "record_content", sender |-> sender,
                         space |-> space_id, ownership |-> own, result |-> res]
                   ELSE failed("record_content", res)
        /\ Shift
        /\ UNCHANGED client
        /\ UNCHANGED <<now, ticks, renewals>>
        /\ UNCHANGED chain

\* mutant: the receiver gets a second capability, the sender keeps the first
transfer_ownership_Copy(sender, own, to) ==
    /\ ownerships' = Append(ownerships, [space_id |-> ownerships[own].space_id,
                                         holder |-> to])
    /\ last' = [op |-> "transfer_ownership", sender |-> sender, ownership |-> own,
                result |-> "ok"]
    /\ Shift
    /\ UNCHANGED client
    /\ UNCHANGED <<now, ticks, renewals, identityRegistry, identities, spaceRegistry, spaces,
                   fanRegistry, registry, subscriptions, treasury>>

\* SpaceOwnership has `store`: its holder can hand it to another address
transfer_ownership(sender, own, to) ==
    /\ ownerships' = [ownerships EXCEPT ![own].holder = to]
    /\ last' = [op |-> "transfer_ownership", sender |-> sender, ownership |-> own,
                result |-> "ok"]
    /\ Shift
    /\ UNCHANGED client
    /\ UNCHANGED <<now, ticks, renewals, identityRegistry, identities, spaceRegistry, spaces,
                   fanRegistry, registry, subscriptions, treasury>>

\* fan_registry.fans after add_fan_avatar
add_fan_avatar(fans, space_id, fan_address, avatar_blob_id) ==
    LET fan_avatar == [owner |-> fan_address, avatar_blob_id |-> avatar_blob_id]
        fans1 == IF ~contains(fans, space_id)
                 THEN add(fans, space_id, EmptyTable) ELSE fans
        space_fans == fans1[space_id]
        space_fans1 == IF contains(space_fans, fan_address)
                       THEN remove(space_fans, fan_address) ELSE space_fans
    IN  [fans1 EXCEPT ![space_id] = add(space_fans1, fan_address, fan_avatar)]

\* add_fan_avatar is a `public fun`: any transaction can call it on the shared
\* FanRegistry with any fan address and any avatar
add_fan_avatar_call(sender, space_id, fan_address, avatar_blob_id) ==
    /\ fanRegistry' = add_fan_avatar(fanRegistry, space_id, fan_address,
                                     avatar_blob_id)
    /\ last' = [op |-> "add_fan_avatar", sender |-> sender, space |-> space_id,
                fan |-> fan_address, result |-> "ok"]
    /\ Shift
    /\ UNCHANGED client
    /\ UNCHANGED <<now, ticks, renewals, identityRegistry, identities, spaceRegistry,
                   spaces, ownerships, registry, subscriptions, treasury>>

\* ================================================= atrium::subscription

\* mutant: the inner table is never consulted
is_subscribed_internal_NoInner(reg, subscriber, space_kiosk_id) ==
    IF ~contains(reg.subscriptions, space_kiosk_id) THEN FALSE
    ELSE FALSE

is_subscribed_internal(reg, subscriber, space_kiosk_id) ==
    IF ~contains(reg.subscriptions, space_kiosk_id) THEN FALSE
    ELSE contains(reg.subscriptions[space_kiosk_id], subscriber)

\* mutant: presence in the registry counts only while the subscription runs
is_subscribed_Valid(reg, subscriber, space_kiosk_id, clock) ==
    /\ is_subscribed_internal(reg, subscriber, space_kiosk_id)
    /\ ~(subscriptions[reg.subscriptions[space_kiosk_id][subscriber]].expires_at
             < clock)

is_subscribed(reg, subscriber, space_kiosk_id, clock) ==
    is_subscribed_internal(reg, subscriber, space_kiosk_id)

\* mutant: a subscription counts as expired at the instant expires_at
is_expired_NonStrict(subscription, clock) == subscription.expires_at <= clock

is_expired(subscription, clock) == subscription.expires_at < clock

\* mutant: only the total is counted
register_subscription_TotalOnly(reg, space_id, subscriber, subscription_id) ==
    LET subs1 == IF ~contains(reg.subscriptions, space_id)
                 THEN add(reg.subscriptions, space_id, EmptyTable)
                 ELSE reg.subscriptions
    IN  [subscriptions |->
             [subs1 EXCEPT ![space_id] = add(@, subscriber, subscription_id)],
         total_subscriptions |-> reg.total_subscriptions + 1,
         active_subscriptions |-> reg.active_subscriptions]

\* the registry after the nested insert and the two counter increments
\* (the caller has checked that the inner add does not abort)
register_subscription(reg, space_id, subscriber, subscription_id) ==
    LET subs1 == IF ~contains(reg.subscriptions, space_id)
                 THEN add(reg.subscriptions, space_id, EmptyTable)
                 ELSE reg.subscriptions
    IN  [subscriptions |->
             [subs1 EXCEPT ![space_id] = add(@, subscriber, subscription_id)],
         total_subscriptions |-> reg.total_subscriptions + 1,
         active_subscriptions |-> reg.active_subscriptions + 1]

create_creator_subscription_abort(space_id, creator) ==
    IF /\ contains(registry.subscriptions, space_id)
       /\ contains(registry.subscriptions[space_id], creator)
    THEN "EFieldAlreadyExists"
    ELSE "ok"

create_creator_subscription(sender, space_id, creator) ==
    LET res == create_creator_subscription_abort(space_id, creator)
        subscription_id == Len(subscriptions) + 1
        subscription == [space_id |-> space_id,
                         subscriber |-> creator,
                         subscribed_at |-> now,
                         expires_at |-> U64_MAX,
                         duration_days |-> 0,
                         holder |-> sender]
    IN  /\ last' = IF res = "ok"
                   THEN [op |-> "create_creator_subscription", sender |-> sender,
                         space |-> space_id, creator |-> creator, result |-> res,
                         subscription |-> subscription_id]
                   ELSE failed("create_creator_subscription", res)
        /\ Shift
        /\ UNCHANGED client
        /\ IF res = "ok"
           THEN /\ subscriptions' = Append(subscriptions, subscription)
                /\ registry' = register_subscription(registry, space_id, creator,
                                                     subscription_id)
           ELSE UNCHANGED <<subscriptions, registry>>
        /\ UNCHANGED <<now, ticks, renewals, identityRegistry, identities, spaceRegistry,
                       spaces, ownerships, fanRegistry, treasury>>

\* mutant: the days are not converted to milliseconds
new_expires_at_NoDayFactor(current_time, duration_days) ==
    current_time + duration_days

\* expires_at of a subscription bought at current_time for duration_days
new_expires_at(current_time, duration_days) ==
    current_time + (duration_days * ONE_DAY_MS)

\* mutant: the payment assertion left out (coin::split then aborts ENotEnough)
subscribe_abort_NoPaymentAssert(sender, space_id, identity, payment, duration_days) ==
    LET subscription_price == spaces[space_id].subscription_price
    IN  IF identity.owner # sender THEN "ENoIdentity"
        ELSE IF ~is_some(identity.avatar_blob_id) THEN "ENoAvatar"
        ELSE IF /\ contains(registry.subscriptions, space_id)
                /\ contains(registry.subscriptions[space_id], sender)
             THEN "EAlreadySubscribed"
        ELSE IF MulAborts(subscription_price, duration_days) THEN "ARITHMETIC_ERROR"
        ELSE IF payment < subscription_price * duration_days THEN "ENotEnough"
        ELSE "ok"

\* mutant: the owner of the presented Identity is not compared with the sender
subscribe_abort_NoOwnerCheck(sender, space_id, identity, payment, duration_days) ==
    LET subscription_price == spaces[space_id].subscription_price
    IN  IF ~is_some(identity.avatar_blob_id) THEN "ENoAvatar"
        ELSE IF /\ contains(registry.subscriptions, space_id)
                /\ contains(registry.subscriptions[space_id], sender)
             THEN "EAlreadySubscribed"
        ELSE IF MulAborts(subscription_price, duration_days) THEN "ARITHMETIC_ERROR"
        ELSE IF ~(payment >= subscription_price * duration_days)
             THEN "EInsufficientPayment"
        ELSE "ok"

\* mutant: the payment must exceed the total price
subscribe_abort_StrictPayment(sender, space_id, identity, payment, duration_days) ==
    LET subscription_price == spaces[space_id].subscription_price
    IN  IF identity.owner # sender THEN "ENoIdentity"
        ELSE IF ~is_some(identity.avatar_blob_id) THEN "ENoAvatar"
        ELSE IF /\ contains(registry.subscriptions, space_id)
                /\ contains(registry.subscriptions[space_id], sender)
             THEN "EAlreadySubscribed"
        ELSE IF MulAborts(subscription_price, duration_days) THEN "ARITHMETIC_ERROR"
        ELSE IF ~(payment > subscription_price * duration_days)
             THEN "EInsufficientPayment"
        ELSE "ok"

\* the abort code of subscribe, "ok" when it runs to its end: the two
\* assertions, the existence check, the checked arithmetic, coin::split
\* (ENotEnough) and table::add (EFieldAlreadyExists), in the order of the code
\* mutant: the payment is checked before the registry is looked up
subscribe_abort_PaymentFirst(sender, space_id, identity, payment, duration_days) ==
    LET subscription_price == spaces[space_id].subscription_price
    IN  IF identity.owner # sender THEN "ENoIdentity"
        ELSE IF ~is_some(identity.avatar_blob_id) THEN "ENoAvatar"
        ELSE IF MulAborts(subscription_price, duration_days) THEN "ARITHMETIC_ERROR"
        ELSE IF ~(payment >= subscription_price * duration_days)
             THEN "EInsufficientPayment"
        ELSE IF is_subscribed_internal(registry, sender, space_id)
             THEN "EAlreadySubscribed"
        ELSE IF payment < subscription_price * duration_days THEN "ENotEnough"
        ELSE IF MulAborts(duration_days, ONE_DAY_MS) THEN "ARITHMETIC_ERROR"
        ELSE IF AddAborts(now, duration_days * ONE_DAY_MS) THEN "ARITHMETIC_ERROR"
        ELSE IF /\ contains(registry.subscriptions, space_id)
                /\ contains(registry.subscriptions[space_id], sender)
             THEN "EFieldAlreadyExists"
        ELSE "ok"

subscribe_abort(sender, space_id, identity, payment, duration_days) ==
    LET subscription_price == spaces[space_id].subscription_price
    IN  IF identity.owner # sender THEN "ENoIdentity"
        ELSE IF ~is_some(identity.avatar_blob_id) THEN "ENoAvatar"
        ELSE IF is_subscribed_internal(registry, sender, space_id)
             THEN "EAlreadySubscribed"
        ELSE IF MulAborts(subscription_price, duration_days) THEN "ARITHMETIC_ERROR"
        ELSE IF ~(payment >= subscription_price * duration_days)
             THEN "EInsufficientPayment"
        ELSE IF payment < subscription_price * duration_days THEN "ENotEnough"
        ELSE IF MulAborts(duration_days, ONE_DAY_MS) THEN "ARITHMETIC_ERROR"
        ELSE IF AddAborts(now, duration_days * ONE_DAY_MS) THEN "ARITHMETIC_ERROR"
        ELSE IF /\ contains(registry.subscriptions, space_id)
                /\ contains(registry.subscriptions[space_id], sender)
             THEN "EFieldAlreadyExists"
        ELSE "ok"

subscribe(sender, space_id, id, payment, duration_days) ==
    LET identity == identities[id]
        res == subscribe_abort(sender, space_id, identity, payment, duration_days)
        subscription_price == spaces[space_id].subscription_price
        total_price == subscription_price * duration_days
        current_time == now
        expires_at == new_expires_at(current_time, duration_days)
        subscription_id == Len(subscriptions) + 1
        subscription == [space_id |-> space_id,
                         subscriber |-> sender,
                         subscribed_at |-> current_time,
                         expires_at |-> expires_at,
                         duration_days |-> duration_days,
                         holder |-> sender]
    IN  /\ last' = [op |-> "subscribe", sender |-> sender, space |-> space_id,
                    identity |-> id, payment |-> payment,
                    duration_days |-> duration_days,
                    price |-> subscription_price, result |-> res,
                    subscription |-> IF res = "ok" THEN subscription_id ELSE 0,
                    charge |-> IF res = "ok" THEN total_price ELSE 0,
                    change |-> IF res = "ok" THEN payment - total_price ELSE 0]
        /\ Shift
        /\ UNCHANGED client
        /\ IF res = "ok"
           THEN /\ subscriptions' = Append(subscriptions, subscription)
                /\ registry' = register_subscription(registry, space_id, sender,
                                                     subscription_id)
                /\ fanRegistry' = add_fan_avatar(fanRegistry, space_id, sender,
                                      destroy_some(identity.avatar_blob_id))
           ELSE UNCHANGED <<subscriptions, registry, fanRegistry>>
        /\ UNCHANGED <<now, ticks, renewals, identityRegistry, identities, spaceRegistry,
                       spaces, ownerships, treasury>>

\* mutant: the window always restarts from the current time
renew_expires_at_FromNow(expires_at, current_time, extension) ==
    current_time + extension

\* mutant: the extension is always appended to the old expiry
renew_expires_at_Append(expires_at, current_time, extension) ==
    expires_at + extension

\* the branching extension rule of renew_subscription
renew_expires_at(expires_at, current_time, extension) ==
    IF expires_at < current_time THEN current_time + extension
    ELSE expires_at + extension

\* mutant: the caller is not compared with the subscriber
renew_subscription_abort_NoSenderCheck(sender, subscription, payment, space_id, additional_days) ==
    LET subscription_price == spaces[space_id].subscription_price
    IN  IF MulAborts(subscription_price, additional_days) THEN "ARITHMETIC_ERROR"
        ELSE IF ~(payment >= subscription_price * additional_days)
             THEN "EInsufficientPayment"
        ELSE IF AddAborts(subscription.expires_at, additional_days * ONE_DAY_MS)
             THEN "ARITHMETIC_ERROR"
        ELSE "ok"

renew_subscription_abort(sender, subscription, payment, space_id, additional_days) ==
    LET subscription_price == spaces[space_id].subscription_price
        extension == additional_days * ONE_DAY_MS
    IN  IF subscription.subscriber # sender THEN "ENotSubscriber"
        ELSE IF MulAborts(subscription_price, additional_days) THEN "ARITHMETIC_ERROR"
        ELSE IF ~(payment >= subscription_price * additional_days)
             THEN "EInsufficientPayment"
        ELSE IF MulAborts(additional_days, ONE_DAY_MS) THEN "ARITHMETIC_ERROR"
        ELSE IF subscription.expires_at < now /\ AddAborts(now, extension)
             THEN "ARITHMETIC_ERROR"
        ELSE IF ~(subscription.expires_at < now)
                /\ AddAborts(subscription.expires_at, extension)
             THEN "ARITHMETIC_ERROR"
        ELSE IF AddAborts(subscription.duration_days, additional_days)
             THEN "ARITHMETIC_ERROR"
        ELSE "ok"

renew_subscription(sender, sub, payment, space_id, additional_days) ==
    LET subscription == subscriptions[sub]
        res == renew_subscription_abort(sender, subscription, payment, space_id,
                                        additional_days)
        subscription_price == spaces[space_id].subscription_price
        total_price == subscription_price * additional_days
        current_time == now
        extension == additional_days * ONE_DAY_MS
    IN  /\ last' = IF res = "ok"
                   THEN [op |-> "renew_subscription", sender |-> sender,
                         subscription |-> sub, space |-> space_id,
                         payment |-> payment,
                         additional_days |-> additional_days,
                         price |-> subscription_price, result |-> res,
                         now |-> current_time,
                         before |-> subscription.expires_at,
                         charge |-> total_price,
                         change |-> payment - total_price]
                   ELSE failed("renew_subscription", res)
        /\ Shift
        /\ UNCHANGED client
        /\ IF res = "ok"
           THEN /\ subscriptions' = [subscriptions EXCEPT ![sub] =
                      [subscription EXCEPT
                          !.expires_at = renew_expires_at(subscription.expires_at,
                                                          current_time, extension),
                          !.duration_days = @ + additional_days]]
                /\ renewals' = renewals + 1
           ELSE UNCHANGED <<subscriptions, renewals>>
        /\ UNCHANGED <<now, ticks, identityRegistry, identities, spaceRegistry,
                       spaces, ownerships, fanRegistry, registry, treasury>>

\* Subscription has `store`: its holder can hand it to another address
\* mutant: the transfer makes the receiver the subscriber
transfer_subscription_Rekeys(sender, sub, to) ==
    /\ subscriptions' = [subscriptions EXCEPT ![sub].holder = to,
                                              ![sub].subscriber = to]
    /\ last' = [op |-> "transfer_subscription", sender |-> sender,
                subscription |-> sub, result |-> "ok"]
    /\ Shift
    /\ UNCHANGED client
    /\ UNCHANGED <<now, ticks, renewals, identityRegistry, identities, spaceRegistry, spaces,
                   ownerships, fanRegistry, registry, treasury>>

transfer_subscription(sender, sub, to) ==
    /\ subscriptions' = [subscriptions EXCEPT ![sub].holder = to]
    /\ last' = [op |-> "transfer_subscription", sender |-> sender,
                subscription |-> sub, result |-> "ok"]
    /\ Shift
    /\ UNCHANGED client
    /\ UNCHANGED <<now, ticks, renewals, identityRegistry, identities, spaceRegistry, spaces,
                   ownerships, fanRegistry, registry, treasury>>

\* ------------------------------------------------ Seal protocol gate checks

\* mutant: the assertion left out
seal_approve_as_creator_abort_NoAssert(space_id, ownership) == "ok"

seal_approve_as_creator_abort(space_id, ownership) ==
    IF ~(ownership.space_id = space_id) THEN "ENotOwner" ELSE "ok"

\* mutant: a grant is remembered and answers the next evaluation
seal_approve_as_creator_Sticky(sender, space_id, own) ==
    /\ last' = [op |-> "seal_approve_as_creator", sender |-> sender,
                space |-> space_id, ownership |-> own,
                result |-> IF last.op = "seal_approve_as_creator"
                              /\ last.result = "ok"
                           THEN "ok"
                           ELSE seal_approve_as_creator_abort(
                                    space_id, ownerships[own])]
    /\ Shift
    /\ UNCHANGED client
    /\ UNCHANGED <<now, ticks, renewals>>
    /\ UNCHANGED chain

seal_approve_as_creator(sender, space_id, own) ==
    /\ last' = [op |-> "seal_approve_as_creator", sender |-> sender,
                space |-> space_id, ownership |-> own,
                result |-> seal_approve_as_creator_abort(space_id, ownerships[own])]
    /\ Shift
    /\ UNCHANGED client
    /\ UNCHANGED <<now, ticks, renewals>>
    /\ UNCHANGED chain

\* mutant: the space of the subscription is not compared
seal_approve_as_subscriber_abort_NoSpace(sender, space_id, subscription, clock) ==
    IF ~(subscription.subscriber = sender) THEN "ENotSubscriber"
    ELSE IF ~(~is_expired(subscription, clock)) THEN "ENotSubscriber"
    ELSE "ok"

seal_approve_as_subscriber_abort(sender, space_id, subscription, clock) ==
    IF ~(subscription.subscriber = sender) THEN "ENotSubscriber"
    ELSE IF ~(subscription.space_id = space_id) THEN "ENotSubscriber"
    ELSE IF ~(~is_expired(subscription, clock)) THEN "ENotSubscriber"
    ELSE "ok"

\* mutant: the check sweeps an expired subscription out of the active count
seal_approve_as_subscriber_Sweeps(sender, space_id, sub) ==
    /\ last' = [op |-> "seal_approve_as_subscriber", sender |-> sender,
                space |-> space_id, subscription |-> sub,
                result |-> seal_approve_as_subscriber_abort(
                               sender, space_id, subscriptions[sub], now)]
    /\ Shift
    /\ UNCHANGED client
    /\ registry' = IF is_expired(subscriptions[sub], now)
                   THEN [registry EXCEPT !.active_subscriptions = @ - 1]
                   ELSE registry
    /\ UNCHANGED <<now, ticks, renewals, identityRegistry, identities,
                   spaceRegistry, spaces, ownerships, fanRegistry, subscriptions,
                   treasury>>

seal_approve_as_subscriber(sender, space_id, sub) ==
    /\ last' = [op |-> "seal_approve_as_subscriber", sender |-> sender,
                space |-> space_id, subscription |-> sub,
                result |-> seal_approve_as_subscriber_abort(
                               sender, space_id, subscriptions[sub], now)]
    /\ Shift
    /\ UNCHANGED client
    /\ UNCHANGED <<now, ticks, renewals>>
    /\ UNCHANGED chain

\* ------------------------------------------------------------------ client
\* The functions a transaction can call in each module of the package.
identity_functions ==
    {"mint_identity", "bind_avatar", "update_image", "update_bio",
     "get_identity_id", "has_identity", "total_identities", "total_creators",
     "owner", "username", "bio", "avatar_blob_id", "image_blob_id", "is_creator",
     "created_at"}

space_functions ==
    {"initialize_space", "update_space_config", "add_fan_avatar", "add_video",
     "record_content", "subscription_price", "creator", "marketplace_kiosk_id",
     "get_space_ownership_space_id", "total_spaces", "all_spaces"}

subscription_functions ==
    {"create_creator_subscription", "subscribe", "renew_subscription",
     "is_subscribed", "expires_at", "is_expired", "space_id", "subscriber",
     "total_subscriptions", "active_subscriptions", "seal_approve_as_creator",
     "seal_approve_as_subscriber"}

PackageFunctions ==
    ({"identity"} \X identity_functions) \cup ({"space"} \X space_functions)
        \cup ({"subscription"} \X subscription_functions)

\* the move call of decryptContent: the resource id, the space and the
\* subscription registry
decryptContent(spaceId, sealResourceId) ==
    [target |-> <<"space", "seal_approve">>,
     arguments |-> <<[type |-> "vector<u8>", value |-> sealResourceId],
                     [type |-> "Space", value |-> spaceId],
                     [type |-> "SubscriptionRegistry", value |-> 1]>>]

\* the move call of sealApproveBySubscription: the resource id and one object
sealApproveBySubscription(resourceIdBytes, spaceKioskId) ==
    [target |-> <<"space", "seal_approve_by_subscription">>,
     arguments |-> <<[type |-> "vector<u8>", value |-> resourceIdBytes],
                     [type |-> "Space", value |-> spaceKioskId]>>]

ArgumentTypes(tx) == [k \in 1..Len(tx.arguments) |-> tx.arguments[k].type]

\* What a key server gets from running the transaction for sender without
\* submitting it: the call resolves against the package, then the gate check
\* it names runs on the objects passed.
dry_run(sender, tx) ==
    IF tx.target \notin PackageFunctions THEN "FunctionNotFound"
    ELSE IF /\ tx.target = <<"subscription", "seal_approve_as_creator">>
            /\ ArgumentTypes(tx) = <<"vector<u8>", "Space", "SpaceOwnership">>
    THEN seal_approve_as_creator_abort(tx.arguments[2].value,
                                       ownerships[tx.arguments[3].value])
    ELSE IF /\ tx.target = <<"subscription", "seal_approve_as_subscriber">>
            /\ ArgumentTypes(tx)
                   = <<"vector<u8>", "Space", "Subscription", "Clock">>
    THEN seal_approve_as_subscriber_abort(sender, tx.arguments[2].value,
                                          subscriptions[tx.arguments[3].value], now)
    ELSE "InvalidSealApprove"

\* a decryption request of sender for content of a space: the transaction is
\* built, handed to the key servers and run by them; nothing is submitted
decrypt(op, sender, spaceId, tx) ==
    /\ last' = [op |-> op, sender |-> sender, space |-> spaceId,
                target |-> tx.target, result |-> dry_run(sender, tx)]
    /\ Shift
    /\ UNCHANGED client
    /\ UNCHANGED <<now, ticks, renewals>>
    /\ UNCHANGED chain

\* ---------------------------------------------------------- useSecureContent
\* the inputs of the hook: its options and the connected account
SecureInputs ==
    [blobId : {"blob1", "blob2"}, resourceId : {"res1"}, isLocked : BOOLEAN,
     currentAccount : {none, some(1)}, isCreator : {FALSE},
     authId : {none, some("sub1")}]

\* the first render: the three states and the ref at their initial values,
\* the effect due
mount_useSecureContent(inputs) ==
    /\ ~secureContent.mounted
    /\ secureContent' = [mounted |-> TRUE, inputs |-> inputs, changes |-> 0,
                         effectDue |-> TRUE, isLoadingRef |-> FALSE,
                         content |-> none, loading |-> FALSE, error |-> none,
                         pending |-> "none", attempt |-> none]
    /\ UNCHANGED <<asyncData, calls, chain>>

\* a render with other inputs: one of the effect's dependencies changed
render_useSecureContent(inputs) ==
    /\ secureContent.mounted
    /\ inputs # secureContent.inputs
    /\ secureContent.changes < MaxInputChanges
    /\ secureContent' = [secureContent EXCEPT !.inputs = inputs,
                                              !.changes = @ + 1,
                                              !.effectDue = TRUE]
    /\ UNCHANGED <<asyncData, calls, chain>>

\* loadContent up to its first await, for the inputs the effect closed over
loadContent(h) ==
    LET i == h.inputs
        started == [h EXCEPT !.attempt = some(i)]
    IN  IF i.blobId = "" THEN [started EXCEPT !.error = some("No blob ID provided")]
        ELSE IF ~i.isLocked
             THEN [started EXCEPT !.loading = TRUE, !.pending = "fetch"]
        ELSE IF i.currentAccount = none
             THEN [started EXCEPT
                      !.error = some("Please connect wallet to view this content")]
        ELSE IF i.resourceId \in {"", "0x"}
             THEN [started EXCEPT !.error = some("Invalid resource ID")]
        ELSE IF i.authId = none
             THEN [started EXCEPT
                      !.loading = FALSE,
                      !.error = some(IF i.isCreator
                                     THEN "Ownership ID is required for creator access"
                                     ELSE "Subscription ID is required for subscriber access")]
        ELSE [started EXCEPT !.loading = TRUE, !.error = none,
                             !.pending = "decrypt"]

\* the effect: it returns at once when the ref is set, else sets it and
\* calls loadContent; nothing clears the ref
effect_useSecureContent ==
    /\ secureContent.mounted
    /\ secureContent.effectDue
    /\ secureContent' =
           IF secureContent.isLoadingRef
           THEN [secureContent EXCEPT !.effectDue = FALSE]
           ELSE loadContent([secureContent EXCEPT !.effectDue = FALSE,
                                                  !.isLoadingRef = TRUE])
    /\ UNCHANGED <<asyncData, calls, chain>>

\* the awaited download or decryption resolves or rejects
settle_useSecureContent(ok) ==
    /\ secureContent.mounted
    /\ secureContent.pending # "none"
    /\ secureContent' =
           [secureContent EXCEPT
               !.pending = "none",
               !.loading = FALSE,
               !.content = IF ok THEN some(destroy_some(secureContent.attempt).blobId)
                           ELSE @,
               !.error = IF ok THEN @
                         ELSE IF secureContent.pending = "fetch"
                              THEN some("Failed to load")
                              ELSE some("Failed to decrypt content")]
    /\ UNCHANGED <<asyncData, calls, chain>>

\* -------------------------------------------------------------- useAsyncData
\* the values the dependencies take
Dependencies == {"depA", "depB"}

\* the first render: data null, loading true, error null, the effect due
mount_useAsyncData(dependencies, enabled) ==
    /\ ~asyncData.mounted
    /\ asyncData' = [mounted |-> TRUE, dependencies |-> dependencies,
                     enabled |-> enabled, refreshTrigger |-> 0, renders |-> 0,
                     effectDue |-> TRUE, data |-> none, loading |-> TRUE,
                     error |-> none, fetches |-> <<>>, active |-> 0]
    /\ UNCHANGED <<secureContent, calls, chain>>

\* a render with other dependencies or another enabled
render_useAsyncData(dependencies, enabled) ==
    /\ asyncData.mounted
    /\ <<dependencies, enabled>> # <<asyncData.dependencies, asyncData.enabled>>
    /\ asyncData.renders < MaxRenders
    /\ asyncData' = [asyncData EXCEPT !.dependencies = dependencies,
                                      !.enabled = enabled,
                                      !.renders = @ + 1,
                                      !.effectDue = TRUE]
    /\ UNCHANGED <<secureContent, calls, chain>>

refetch ==
    /\ asyncData.mounted
    /\ asyncData.renders < MaxRenders
    /\ asyncData' = [asyncData EXCEPT !.refreshTrigger = @ + 1,
                                      !.renders = @ + 1,
                                      !.effectDue = TRUE]
    /\ UNCHANGED <<secureContent, calls, chain>>

\* mutant: the cleanup does not set cancelled
cleanup_NoCancel(fetches, active) == fetches

\* the cleanup the previous run of the effect returned, if it returned one:
\* cancelled = true in the closure of its load
cleanup(fetches, active) ==
    IF active = 0 THEN fetches
    ELSE [fetches EXCEPT ![active].cancelled = TRUE]

\* the effect, after the cleanup of its previous run: load up to its await
effect_useAsyncData ==
    /\ asyncData.mounted
    /\ asyncData.effectDue
    /\ LET cleaned == cleanup(asyncData.fetches, asyncData.active)
       IN  asyncData' =
               IF ~asyncData.enabled
               THEN [asyncData EXCEPT !.effectDue = FALSE,
                                      !.fetches = cleaned,
                                      !.active = 0,
                                      !.loading = FALSE]
               ELSE [asyncData EXCEPT
                        !.effectDue = FALSE,
                        !.fetches = Append(cleaned,
                                           [dependencies |-> asyncData.dependencies,
                                            cancelled |-> FALSE,
                                            settled |-> FALSE]),
                        !.active = Len(cleaned) + 1,
                        !.loading = TRUE,
                        !.error = none]
    /\ UNCHANGED <<secureContent, calls, chain>>

\* fetchFn() of load number f resolves (ok) or rejects
settle_useAsyncData(f, ok) ==
    /\ asyncData.mounted
    /\ f \in 1..Len(asyncData.fetches)
    /\ ~asyncData.fetches[f].settled
    /\ LET cancelled == asyncData.fetches[f].cancelled
           result == [from |-> f,
                      dependencies |-> asyncData.fetches[f].dependencies]
       IN  asyncData' =
               [asyncData EXCEPT
                   !.fetches[f].settled = TRUE,
                   !.data = IF ok /\ ~cancelled THEN some(result) ELSE @,
                   !.error = IF ~ok /\ ~cancelled THEN some(result) ELSE @,
                   !.loading = IF ~cancelled THEN FALSE ELSE @]
    /\ UNCHANGED <<secureContent, calls, chain>>

\* the fields of a Subscription object as getOwnedObjects returns them
SubscriptionFields(subscription) ==
    [space_id |-> subscription.space_id,
     subscriber |-> subscription.subscriber,
     subscribed_at |-> subscription.subscribed_at,
     expires_at |-> subscription.expires_at,
     duration_days |-> subscription.duration_days]

\* subscriptionData.some(sub => sub.data?.content?.fields?.space_kiosk_id
\* === spaceKioskId) over the Subscription objects the account owns; a field
\* the object does not have reads as undefined, which equals no id
hasSubscription(account, spaceKioskId) ==
    \E sub \in {x \in 1..Len(subscriptions) : subscriptions[x].holder = account} :
        LET fields == SubscriptionFields(subscriptions[sub])
        IN  /\ "space_kiosk_id" \in DOMAIN fields
            /\ fields["space_kiosk_id"] = spaceKioskId

\* what useSpaceAccess returns for a connected account once checkStatus has
\* settled
useSpaceAccess(account, space_id) ==
    LET spaceKioskId == spaces[space_id].marketplace_kiosk_id
        spaceCreator == spaces[space_id].creator
        isSubscribed == hasSubscription(account, spaceKioskId)
        isCreator == account = spaceCreator
    IN  /\ last' = [op |-> "useSpaceAccess", account |-> account,
                    space |-> space_id, isSubscribed |-> isSubscribed,
                    isCreator |-> isCreator,
                    accessStatus |-> IF isCreator THEN "creator"
                                     ELSE IF isSubscribed THEN "subscriber"
                                     ELSE "visitor",
                    loading |-> FALSE, result |-> "ok"]
        /\ Shift
        /\ UNCHANGED client
        /\ UNCHANGED <<now, ticks, renewals>>
        /\ UNCHANGED chain

\* what useSpaceSubscription returns for a connected account once
\* checkStatus has settled
useSpaceSubscription(account, space_id) ==
    LET spaceKioskId == spaces[space_id].marketplace_kiosk_id
    IN  /\ last' = [op |-> "useSpaceSubscription", account |-> account,
                    space |-> space_id,
                    isSubscribed |-> hasSubscription(account, spaceKioskId),
                    loading |-> FALSE, result |-> "ok"]
        /\ Shift
        /\ UNCHANGED client
        /\ UNCHANGED <<now, ticks, renewals>>
        /\ UNCHANGED chain

\* ------------------------------------------------------------ transactions
\* An owned object (Identity, SpaceOwnership, Subscription) can be passed to a
\* transaction only by the address holding it; shared objects by anyone.  The
\* gate checks run under the key servers' inspection of an unsubmitted
\* transaction, where any object can be named by any sender.

SpaceIds == 1..Len(spaces)
HeldIdentities(a) == {i \in 1..Len(identities) : identities[i].holder = a}
HeldOwnerships(a) == {o \in 1..Len(ownerships) : ownerships[o].holder = a}
HeldSubscriptions(a) == {s \in 1..Len(subscriptions) : subscriptions[s].holder = a}

\* The scenario of Spec: every address registers at Clock0 (odd addresses with
\* an avatar, even ones without), then MaxSpaces spaces are initialized at
\* Clock0 (space k by address ((k-1) mod NumAddr)+1, odd spaces priced 100 a
\* day and even ones free); the subscription life cycle runs from there.
SetupAvatar(a) == IF a % 2 = 1 THEN "glb1" ELSE ""
SetupCreator(k) == ((k - 1) % NumAddr) + 1
SetupPrice(k) == IF k % 2 = 1 THEN 100 ELSE 0
SetupDone == Len(identities) = NumAddr /\ Len(spaces) = MaxSpaces

Setup ==
    \/ /\ Len(identities) < NumAddr
       /\ mint_identity(Len(identities) + 1, SetupAvatar(Len(identities) + 1),
                        "img1")
    \/ /\ Len(identities) = NumAddr
       /\ Len(spaces) < MaxSpaces
       /\ \E v \in InitPayments :
              initialize_space(SetupCreator(Len(spaces) + 1),
                               SetupPrice(Len(spaces) + 1), v)

\* the bounds of a scenario on the objects and renewals it creates
Within(res, count, bound) == res = "ok" => count < bound

CreateCreatorSubscription(bound) ==
    \E a \in Addr, sp \in SpaceIds, c \in Addr :
        /\ Within(create_creator_subscription_abort(sp, c), Len(subscriptions), bound)
        /\ create_creator_subscription(a, sp, c)

Subscribe(bound) ==
    \E a \in Addr, sp \in SpaceIds, vd \in Offers : \E i \in HeldIdentities(a) :
        /\ Within(subscribe_abort(a, sp, identities[i], vd[1], vd[2]),
                  Len(subscriptions), bound)
        /\ subscribe(a, sp, i, vd[1], vd[2])

Renew ==
    \E a \in Addr, sp \in SpaceIds, vd \in Offers : \E s \in HeldSubscriptions(a) :
        /\ Within(renew_subscription_abort(a, subscriptions[s], vd[1], sp, vd[2]),
                  renewals, MaxRenewals)
        /\ renew_subscription(a, s, vd[1], sp, vd[2])

BindAvatar ==
    \E a \in Addr : \E i \in HeldIdentities(a) : bind_avatar(a, i, "glb1")

TransferSubscription ==
    \E a \in Addr : \E s \in HeldSubscriptions(a), to \in Addr \ {a} :
        transfer_subscription(a, s, to)

SealApproveAsCreator ==
    \E a \in Addr, sp \in SpaceIds, o \in 1..Len(ownerships) :
        seal_approve_as_creator(a, sp, o)

SealApproveAsSubscriber ==
    \E a \in Addr, sp \in SpaceIds, s \in 1..Len(subscriptions) :
        seal_approve_as_subscriber(a, sp, s)

\* Spec: creation of subscriptions and the two gate checks
Next ==
    \/ ~SetupDone /\ Setup
    \/ SetupDone /\ AdvanceClock
    \/ SetupDone /\ BindAvatar
    \/ SetupDone /\ CreateCreatorSubscription(MaxSubscriptions)
    \/ SetupDone /\ Subscribe(MaxSubscriptions)
    \/ SetupDone /\ SealApproveAsCreator
    \/ SetupDone /\ SealApproveAsSubscriber

Spec == Init /\ [][Next]_vars

\* SpecRenew: the life cycle of MaxRenewSubscriptions subscriptions under
\* renewal, transfer and the subscriber gate check
NextRenew ==
    \/ ~SetupDone /\ Setup
    \/ SetupDone /\ AdvanceClock
    \/ SetupDone /\ BindAvatar
    \/ SetupDone /\ CreateCreatorSubscription(MaxRenewSubscriptions)
    \/ SetupDone /\ Subscribe(MaxRenewSubscriptions)
    \/ SetupDone /\ Renew
    \/ SetupDone /\ TransferSubscription
    \/ SetupDone /\ SealApproveAsSubscriber

SpecRenew == Init /\ [][NextRenew]_vars

MintIdentity ==
    \E a \in Addr, av \in AvatarBlobs, img \in ImageBlobs : mint_identity(a, av, img)

UpdateImage ==
    \E a \in Addr, img \in {"", "img2"} : \E i \in HeldIdentities(a) :
        update_image(a, i, img)

UpdateBio ==
    \E a \in Addr : \E i \in HeldIdentities(a) : update_bio(a, i, "bio1")

TransferIdentity ==
    \E a \in Addr : \E i \in HeldIdentities(a), to \in Addr \ {a} :
        transfer_identity(a, i, to)

RebindAvatar ==
    \E a \in Addr : \E i \in HeldIdentities(a) : bind_avatar(a, i, "glb2")

\* SpecIdentity: atrium::identity alone, every address registering when and
\* as it likes
NextIdentity ==
    \/ MintIdentity
    \/ BindAvatar
    \/ RebindAvatar
    \/ UpdateImage
    \/ UpdateBio
    \/ TransferIdentity

SpecIdentity == Init /\ [][NextIdentity]_vars

UpdateSpaceConfig ==
    \E a \in Addr, sp \in SpaceIds, u \in ConfigUpdates : \E o \in HeldOwnerships(a) :
        update_space_config(a, sp, o, u)

AddVideo ==
    \E a \in Addr, sp \in SpaceIds : \E o \in HeldOwnerships(a) :
        /\ Within(add_video_abort(sp, ownerships[o]),
                  Len(spaces[sp].video_blob_ids), MaxVideos)
        /\ add_video(a, sp, o, "video1")

RecordContent ==
    \E a \in Addr, sp \in SpaceIds : \E o \in HeldOwnerships(a) :
        record_content(a, sp, o)

TransferOwnership ==
    \E a \in Addr : \E o \in HeldOwnerships(a), to \in Addr \ {a} :
        transfer_ownership(a, o, to)

\* SpecSpace: the spaces of the scenario under their owner-gated functions
NextSpace ==
    \/ ~SetupDone /\ Setup
    \/ SetupDone /\ AdvanceClock
    \/ SetupDone /\ UpdateSpaceConfig
    \/ SetupDone /\ AddVideo
    \/ SetupDone /\ RecordContent
    \/ SetupDone /\ TransferOwnership

SpecSpace == Init /\ [][NextSpace]_vars

\* how far the objects are from the scenario's setup: identities handed on
\* or rewritten, spaces reconfigured, videos, subscriptions and renewals
Edits ==
    Cardinality({i \in 1..Len(identities) :
                     identities[i].holder # identities[i].owner})
    + Cardinality({i \in 1..Len(identities) : identities[i].bio # "bio0"})
    + Cardinality({i \in 1..Len(identities) : identities[i].image_blob_id # "img1"})
    + Cardinality({i \in 1..Len(identities) :
                       is_some(identities[i].avatar_blob_id)
                           # (SetupAvatar(identities[i].owner) # "")})
    + Cardinality({sp \in SpaceIds : spaces[sp].name # "name0"})
    + Cardinality({sp \in SpaceIds :
                       spaces[sp].subscription_price # SetupPrice(sp)})
    + Cardinality({x \in SpaceIds \X (1..MaxVideos) :
                       x[2] <= Len(spaces[x[1]].video_blob_ids)})
    + Len(subscriptions)
    + renewals

EntryOpen == SetupDone /\ Edits < MaxEdits

\* SpecEntry: every entry point of the three modules on the scenario's
\* identities and spaces, at one clock value, up to MaxEdits changes away
\* from the setup
NextEntry ==
    \/ ~SetupDone /\ Setup
    \/ EntryOpen /\ MintIdentity
    \/ EntryOpen /\ BindAvatar
    \/ EntryOpen /\ UpdateImage
    \/ EntryOpen /\ UpdateBio
    \/ EntryOpen /\ TransferIdentity
    \/ EntryOpen /\ UpdateSpaceConfig
    \/ EntryOpen /\ AddVideo
    \/ EntryOpen /\ RecordContent
    \/ EntryOpen /\ Subscribe(MaxRenewSubscriptions)
    \/ EntryOpen /\ Renew

SpecEntry == Init /\ [][NextEntry]_vars

AddFanAvatar ==
    \E a \in Addr, sp \in SpaceIds, fan \in Addr :
        add_fan_avatar_call(a, sp, fan, "glbX")

\* SpecFans: the fan records of the scenario's spaces under subscribe and
\* direct calls of add_fan_avatar
NextFans ==
    \/ ~SetupDone /\ Setup
    \/ SetupDone /\ BindAvatar
    \/ SetupDone /\ Subscribe(MaxSubscriptions)
    \/ SetupDone /\ AddFanAvatar

SpecFans == Init /\ [][NextFans]_vars

InitializeSpace ==
    \E a \in Addr, v \in InitPayments :
        initialize_space(a, SetupPrice(Len(spaces) + 1), v)

\* SpecConfig: reconfiguration of spaces that have a subscriber, as time passes
NextConfig ==
    \/ ~SetupDone /\ Setup
    \/ SetupDone /\ AdvanceClock
    \/ SetupDone /\ Subscribe(MaxRenewSubscriptions)
    \/ SetupDone /\ UpdateSpaceConfig

SpecConfig == Init /\ [][NextConfig]_vars

DecryptContent ==
    \E a \in Addr, sp \in SpaceIds :
        decrypt("decryptContent", a, sp, decryptContent(sp, "resource"))

SealApproveBySubscription ==
    \E a \in Addr, sp \in SpaceIds :
        decrypt("sealApproveBySubscription", a, sp,
                sealApproveBySubscription("resource", sp))

\* SpecClient: decryption requests of the client against spaces that have
\* subscribers, as time passes
NextClient ==
    \/ ~SetupDone /\ Setup
    \/ SetupDone /\ AdvanceClock
    \/ SetupDone /\ Subscribe(MaxRenewSubscriptions)
    \/ SetupDone /\ DecryptContent
    \/ SetupDone /\ SealApproveBySubscription

SpecClient == Init /\ [][NextClient]_vars

\* SpecIndex: the registry index under both ways of creating a Subscription
\* and transfers of the objects
NextIndex ==
    \/ ~SetupDone /\ Setup
    \/ SetupDone /\ BindAvatar
    \/ SetupDone /\ CreateCreatorSubscription(MaxSubscriptions)
    \/ SetupDone /\ Subscribe(MaxSubscriptions)
    \/ SetupDone /\ TransferSubscription

SpecIndex == Init /\ [][NextIndex]_vars

SubscribeLong ==
    \E a \in Addr, sp \in SpaceIds, vd \in LongOffers : \E i \in HeldIdentities(a) :
        /\ Within(subscribe_abort(a, sp, identities[i], vd[1], vd[2]),
                  Len(subscriptions), MaxRenewSubscriptions)
        /\ subscribe(a, sp, i, vd[1], vd[2])

RenewLong ==
    \E a \in Addr, sp \in SpaceIds, vd \in LongOffers : \E s \in HeldSubscriptions(a) :
        /\ Within(renew_subscription_abort(a, subscriptions[s], vd[1], sp, vd[2]),
                  renewals, MaxRenewals)
        /\ renew_subscription(a, s, vd[1], sp, vd[2])

\* SpecOverflow: subscribe and renew_subscription with days and prices at
\* the edge of the u64 range
NextOverflow ==
    \/ ~SetupDone /\ Setup
    \/ SetupDone /\ AdvanceClock
    \/ SetupDone /\ SubscribeLong
    \/ SetupDone /\ RenewLong

SpecOverflow == Init /\ [][NextOverflow]_vars

UseSpaceAccess ==
    \E a \in Addr, sp \in SpaceIds : useSpaceAccess(a, sp)

UseSpaceSubscription ==
    \E a \in Addr, sp \in SpaceIds : useSpaceSubscription(a, sp)

\* SpecAccess: the client's classification of the connected account against
\* the subscriptions it owns
NextAccess ==
    \/ ~SetupDone /\ Setup
    \/ SetupDone /\ BindAvatar
    \/ SetupDone /\ Subscribe(MaxSubscriptions)
    \/ SetupDone /\ TransferSubscription
    \/ SetupDone /\ UseSpaceAccess
    \/ SetupDone /\ UseSpaceSubscription

SpecAccess == Init /\ [][NextAccess]_vars

MountSecureContent == \E i \in SecureInputs : mount_useSecureContent(i)
RenderSecureContent == \E i \in SecureInputs : render_useSecureContent(i)
SettleSecureContent == \E ok \in BOOLEAN : settle_useSecureContent(ok)

\* SpecSecureContent: one mounted useSecureContent under changes of its inputs
NextSecureContent ==
    \/ MountSecureContent
    \/ RenderSecureContent
    \/ effect_useSecureContent
    \/ SettleSecureContent

SpecSecureContent == Init /\ [][NextSecureContent]_vars

MountAsyncData ==
    \E d \in Dependencies, e \in BOOLEAN : mount_useAsyncData(d, e)

RenderAsyncData ==
    \E d \in Dependencies, e \in BOOLEAN : render_useAsyncData(d, e)

SettleAsyncData ==
    \E f \in 1..MaxRenders + 1, ok \in BOOLEAN : settle_useAsyncData(f, ok)

\* SpecAsyncData: one mounted useAsyncData under changes of its dependencies,
\* refetch calls and fetches that settle in any order
NextAsyncData ==
    \/ MountAsyncData
    \/ RenderAsyncData
    \/ refetch
    \/ effect_useAsyncData
    \/ SettleAsyncData

SpecAsyncData == Init /\ [][NextAsyncData]_vars

\* SpecCreators: any address, registered or not, initializing spaces
NextCreators ==
    \/ MintIdentity
    \/ BindAvatar
    \/ InitializeSpace
    \/ TransferOwnership

SpecCreators == Init /\ [][NextCreators]_vars

\* ================================================================ claims

Subscriptions == 1..Len(subscriptions)
HasEntry(space_id, a) ==
    /\ contains(registry.subscriptions, space_id)
    /\ contains(registry.subscriptions[space_id], a)

\* C1: the subscriber-path gate check grants exactly when the subscription's
\* subscriber is the requester, its space_id is the id of the presented space
\* and it is not expired at the clock value; every refusal is ENotSubscriber.
\* So a subscription for space A is refused against space B even when it is
\* unexpired and presented by its own subscriber.
C1_SubscriberGate ==
    last.op = "seal_approve_as_subscriber" =>
        LET subscription == subscriptions[last.subscription]
        IN  /\ last.result \in {"ok", "ENotSubscriber"}
            /\ last.result = "ok" <=>
                   /\ subscription.subscriber = last.sender
                   /\ subscription.space_id = last.space
                   /\ ~(subscription.expires_at < now)

C1_Witness ==
    /\ last.op = "seal_approve_as_subscriber"
    /\ last.result = "ENotSubscriber"
    /\ subscriptions[last.subscription].subscriber = last.sender
    /\ subscriptions[last.subscription].space_id # last.space
    /\ subscriptions[last.subscription].expires_at >= now
    /\ subscriptions[last.subscription].expires_at < U64_MAX

\* C2: the owner-path gate check refuses with ENotOwner every SpaceOwnership
\* whose space_id differs from the id of the presented space, whoever the
\* requester is, and grants when the two ids are equal.
C2_OwnerGate ==
    last.op = "seal_approve_as_creator" =>
        last.result = IF ownerships[last.ownership].space_id = last.space
                      THEN "ok" ELSE "ENotOwner"

C2_Witness ==
    /\ last.op = "seal_approve_as_creator"
    /\ last.result = "ENotOwner"
    /\ ownerships[last.ownership].holder = last.sender
    /\ spaces[last.space].creator # last.sender

\* C3: every Subscription with expires_at = MAX names as subscriber the
\* creator of its space, and there is at most one lifetime grant per space
\* (none obtainable by calling create_creator_subscription directly).
C3_LifetimeOnlyForCreator ==
    /\ \A s \in Subscriptions :
           subscriptions[s].expires_at = U64_MAX =>
               subscriptions[s].subscriber = spaces[subscriptions[s].space_id].creator
    /\ \A s, t \in Subscriptions :
           /\ subscriptions[s].expires_at = U64_MAX
           /\ subscriptions[t].expires_at = U64_MAX
           /\ subscriptions[s].space_id = subscriptions[t].space_id
           => s = t

\* C4: right after a successful initialize_space the registry holds an entry
\* for (new space, creator), backed by a Subscription with expires_at = MAX
\* and duration_days = 0, so is_subscribed(creator, space) is true.
C4_CreatorSubscribedAtInit ==
    (last.op = "initialize_space" /\ last.result = "ok") =>
        /\ is_subscribed(registry, last.sender, last.space, now)
        /\ \E s \in Subscriptions :
               /\ subscriptions[s].space_id = last.space
               /\ subscriptions[s].subscriber = last.sender
               /\ subscriptions[s].expires_at = U64_MAX
               /\ subscriptions[s].duration_days = 0

\* C5: a gate check, granting or refusing, changes no registry, counter,
\* Space, Identity, Subscription or fan record (nor the clock).
C5_GatesReadOnly ==
    [][last'.op \in {"seal_approve_as_creator", "seal_approve_as_subscriber"}
           => UNCHANGED <<chain, now>>]_vars

C5_Witness ==
    /\ last.op = "seal_approve_as_subscriber"
    /\ is_expired(subscriptions[last.subscription], now)
    /\ registry.active_subscriptions > 0

\* C6: for every (space, subscriber) pair at most one Subscription is ever
\* created, and once the registry has an entry for the pair (active or
\* lapsed) no subscribe by that caller on that space succeeds: it aborts with
\* EAlreadySubscribed as soon as it passes the identity and avatar checks that
\* precede the existence check.
C6_SubscribeOncePerPair ==
    /\ \A sp \in SpaceIds, a \in Addr :
           Cardinality({s \in Subscriptions :
                            /\ subscriptions[s].space_id = sp
                            /\ subscriptions[s].subscriber = a}) <= 1
    /\ \A sp \in SpaceIds, a \in Addr :
           HasEntry(sp, a) =>
               \A i \in 1..Len(identities), vd \in Offers :
                   LET res == subscribe_abort(a, sp, identities[i], vd[1], vd[2])
                   IN  /\ res # "ok"
                       /\ (identities[i].owner = a
                           /\ is_some(identities[i].avatar_blob_id))
                          => res = "EAlreadySubscribed"
    /\ (last.op = "subscribe" /\ last.result = "ok") =>
           /\ HasEntry(last.space, last.sender)
           /\ registry.subscriptions[last.space][last.sender] = last.subscription

C6_Witness ==
    /\ last.op = "subscribe"
    /\ last.result = "EAlreadySubscribed"
    /\ \E s \in Subscriptions :
           /\ subscriptions[s].space_id = last.space
           /\ subscriptions[s].subscriber = last.sender
           /\ subscriptions[s].expires_at < now

C8_SubscribeCharge ==
    (last.op = "subscribe" /\ last.result = "ok") =>
        LET subscription == subscriptions[last.subscription]
            p == last.price
            d == last.duration_days
            v == last.payment
        IN  /\ last.charge = p * d
            /\ last.change = v - p * d
            /\ last.charge + last.change = v
            /\ last.change >= 0
            /\ subscription.subscribed_at = now
            /\ subscription.duration_days = d
            /\ subscription.expires_at = now + d * ONE_DAY_MS
            /\ subscription.subscriber = last.sender
            /\ subscription.space_id = last.space
            /\ (p = 100 /\ d = 5) =>
                   /\ v >= 500
                   /\ v = 500 => last.change = 0
                   /\ v = 700 => last.change = 200

C8_Witness ==
    /\ last.op = "subscribe"
    /\ last.result = "ok"
    /\ last.price = 100
    /\ last.duration_days = 5
    /\ last.payment = 700
    /\ last.change = 200
    /\ subscriptions[last.subscription].expires_at = now + 5 * ONE_DAY_MS

RenewedOk(call) == call.op = "renew_subscription" /\ call.result = "ok"

\* C9: renewing a subscription that is not expired appends
\* additional_days * ONE_DAY to its expires_at, and renew(d) directly followed
\* by renew(d) on an active subscription leaves expires_at exactly
\* 2 * d * ONE_DAY after its original value.
C9_ActiveRenewalAppends ==
    /\ (RenewedOk(last) /\ ~(last.before < last.now)) =>
           subscriptions[last.subscription].expires_at
               = last.before + last.additional_days * ONE_DAY_MS
    /\ (/\ RenewedOk(last)
        /\ RenewedOk(prev)
        /\ prev.subscription = last.subscription
        /\ prev.additional_days = last.additional_days
        /\ ~(prev.before < prev.now))
       => subscriptions[last.subscription].expires_at
              = prev.before + 2 * last.additional_days * ONE_DAY_MS

C9_Witness ==
    /\ RenewedOk(last)
    /\ RenewedOk(prev)
    /\ prev.subscription = last.subscription
    /\ prev.additional_days = 5
    /\ last.additional_days = 5
    /\ ~(prev.before < prev.now)
    /\ prev.before < U64_MAX
    /\ now > Clock0

\* C10: renewing an expired subscription (expires_at < now) sets expires_at to
\* exactly now + additional_days * ONE_DAY: the window runs from the moment of
\* renewal, is never shorter than the days paid for, and none of it covers the
\* overdue interval between the old expires_at and now.
C10_ExpiredRenewalRestarts ==
    (RenewedOk(last) /\ last.before < last.now) =>
        LET subscription == subscriptions[last.subscription]
        IN  /\ subscription.expires_at = last.now + last.additional_days * ONE_DAY_MS
            /\ subscription.expires_at - last.now >= last.additional_days * ONE_DAY_MS
            /\ subscription.expires_at - last.additional_days * ONE_DAY_MS > last.before

C10_Witness ==
    /\ RenewedOk(last)
    /\ last.before < last.now
    /\ last.additional_days = 5
    /\ last.now - last.before >= ONE_DAY_MS

C12_ZeroDaysNeverAccess ==
    \A s \in Subscriptions :
        (subscriptions[s].duration_days = 0 /\ subscriptions[s].expires_at # U64_MAX)
        => /\ is_expired(subscriptions[s], now)
           /\ \A a \in Addr, sp \in SpaceIds :
                  seal_approve_as_subscriber_abort(a, sp, subscriptions[s], now)
                      # "ok"

\* payments offered with duration_days = 0
ZeroDayPayments == {0, 7, U64_MAX}

\* C13: subscribe with duration_days = 0 by a caller who owns the presented
\* Identity, has an avatar bound and has no entry for the space succeeds
\* whatever the payment; it charges 0, returns the whole payment as change,
\* sets expires_at = now, adds the registry entry, increments both counters
\* and writes the fan record, as a paid subscription does.
C13_ZeroDaysSubscribe ==
    [][/\ \A a \in Addr, sp \in SpaceIds, i \in 1..Len(identities),
             v \in ZeroDayPayments :
              (/\ identities[i].owner = a
               /\ is_some(identities[i].avatar_blob_id)
               /\ ~HasEntry(sp, a))
              => subscribe_abort(a, sp, identities[i], v, 0) = "ok"
       /\ (/\ last'.op = "subscribe"
           /\ last'.duration_days = 0
           /\ identities[last'.identity].owner = last'.sender
           /\ is_some(identities[last'.identity].avatar_blob_id)
           /\ ~HasEntry(last'.space, last'.sender))
          => /\ last'.result = "ok"
             /\ last'.charge = 0
             /\ last'.change = last'.payment
             /\ Len(subscriptions') = Len(subscriptions) + 1
             /\ subscriptions'[last'.subscription].expires_at = now
             /\ subscriptions'[last'.subscription].subscribed_at = now
             /\ subscriptions'[last'.subscription].duration_days = 0
             /\ contains(registry'.subscriptions, last'.space)
             /\ contains(registry'.subscriptions[last'.space], last'.sender)
             /\ registry'.subscriptions[last'.space][last'.sender]
                    = last'.subscription
             /\ registry'.total_subscriptions = registry.total_subscriptions + 1
             /\ registry'.active_subscriptions = registry.active_subscriptions + 1
             /\ contains(fanRegistry', last'.space)
             /\ contains(fanRegistry'[last'.space], last'.sender)
             /\ fanRegistry'[last'.space][last'.sender] =
                    [owner |-> last'.sender,
                     avatar_blob_id |->
                         destroy_some(identities[last'.identity].avatar_blob_id)]
      ]_vars

C13_Witness ==
    /\ last.op = "subscribe"
    /\ last.result = "ok"
    /\ last.duration_days = 0
    /\ last.price = 100
    /\ last.payment = 7
    /\ last.change = 7
    /\ subscriptions[last.subscription].expires_at = now
    /\ registry.total_subscriptions = 2

\* C14: mint_identity succeeds at most once for a principal: it succeeds only
\* for a sender the registry does not hold, and for a registered sender every
\* call, whatever its arguments, aborts with EIdentityAlreadyExists.  So no
\* two Identity objects have the same owner, the registry maps each
\* registered principal to its one Identity, and total_identities is the
\* number of registered principals.
C14_RegisterOnce ==
    [][/\ (last'.op = "mint_identity" /\ last'.result = "ok")
              => /\ ~contains(identityRegistry.identities, last'.sender)
                 /\ contains(identityRegistry'.identities, last'.sender)
       /\ LET reg == identityRegistry'
              ids == identities'
          IN  /\ \A a \in DOMAIN reg.identities :
                     /\ \A av \in AvatarBlobs, img \in ImageBlobs :
                            mint_identity_abort(a, av, img)'
                                = "EIdentityAlreadyExists"
                     /\ ids[reg.identities[a]].owner = a
              /\ \A i, j \in 1..Len(ids) : ids[i].owner = ids[j].owner => i = j
              /\ \A i \in 1..Len(ids) :
                     /\ contains(reg.identities, ids[i].owner)
                     /\ reg.identities[ids[i].owner] = i
              /\ reg.total_identities = Cardinality(DOMAIN reg.identities)
              /\ reg.total_identities = Len(ids)
      ]_vars

C14_Witness ==
    /\ last.op = "mint_identity"
    /\ last.result = "EIdentityAlreadyExists"
    /\ identityRegistry.total_identities = NumAddr
    /\ \E i \in 1..Len(identities) : identities[i].holder # identities[i].owner

Ownerships == 1..Len(ownerships)
OwnerGated == {"update_space_config", "add_video", "record_content"}

\* C15: update_space_config, add_video and record_content, called with a
\* SpaceOwnership whose space_id is not the id of the target space, abort with
\* ENotOwner whoever the caller is, and a call so refused leaves the Space
\* (its fields, its video list, its updated_at) as it was.
C15_OwnerGatedMutations ==
    [][/\ \A sp \in SpaceIds, o \in Ownerships :
              ownerships[o].space_id # sp
              => /\ update_space_config_abort(sp, ownerships[o]) = "ENotOwner"
                 /\ add_video_abort(sp, ownerships[o]) = "ENotOwner"
                 /\ record_content_abort(sp, ownerships[o]) = "ENotOwner"
       /\ (last'.op \in OwnerGated /\ last'.result # "ok")
              => /\ last'.result = "ENotOwner"
                 /\ spaces' = spaces
       /\ (last'.op \in OwnerGated /\ last'.result = "ok")
              => /\ ownerships[last'.ownership].space_id = last'.space
                 /\ \A sp \in SpaceIds : sp # last'.space => spaces'[sp] = spaces[sp]
      ]_vars

C15_Witness ==
    /\ last.op = "add_video"
    /\ last.result = "ENotOwner"
    /\ \E sp \in SpaceIds :
           /\ spaces[sp].video_blob_ids = <<>>
           /\ spaces[sp].updated_at = spaces[sp].created_at
           /\ \E o \in Ownerships :
                  /\ ownerships[o].space_id # sp
                  /\ ownerships[o].holder = spaces[sp].creator
    /\ now > Clock0

\* C16: there is exactly one SpaceOwnership for each initialized space and
\* none for any other id.  A successful initialize_space creates the one of
\* its space and hands it to the caller; no other step creates or destroys
\* one or changes the space it names, and a transfer changes nothing but its
\* holder.
C16_OneOwnershipPerSpace ==
    [][/\ Len(ownerships') = Len(spaces')
       /\ \A sp \in SpaceIds' :
              Cardinality({o \in Ownerships' : ownerships'[o].space_id = sp}) = 1
       /\ \A o \in Ownerships' : ownerships'[o].space_id \in SpaceIds'
       /\ \A o \in Ownerships : ownerships'[o].space_id = ownerships[o].space_id
       /\ IF last'.op = "initialize_space" /\ last'.result = "ok"
          THEN /\ ownerships' = Append(ownerships,
                                       [space_id |-> last'.space,
                                        holder |-> last'.sender])
               /\ last'.ownership = Len(ownerships')
               /\ last'.space = Len(spaces')
          ELSE Len(ownerships') = Len(ownerships)
       /\ last'.op = "transfer_ownership"
              => /\ UNCHANGED <<identityRegistry, identities, spaceRegistry, spaces,
                                fanRegistry, registry, subscriptions, treasury, now>>
                 /\ \A o \in Ownerships :
                        o # last'.ownership => ownerships'[o] = ownerships[o]
       /\ last'.op # "transfer_ownership"
              => \A o \in Ownerships : ownerships'[o] = ownerships[o]
      ]_vars

C16_Witness ==
    /\ last.op = "transfer_ownership"
    /\ Len(spaces) = MaxSpaces
    /\ \E a \in Addr : \A o \in Ownerships : ownerships[o].holder = a

\* C19: initialize_space aborts with EInsufficientPayment when the payment is
\* below SPACE_INIT_FEE and changes nothing; otherwise it moves exactly
\* SPACE_INIT_FEE to the treasury, returns payment - SPACE_INIT_FEE, appends
\* the new space id to the registry's list and adds one to total_spaces.  So
\* total_spaces is the length of the list and the treasury holds
\* SPACE_INIT_FEE * total_spaces.
C19_InitializeSpaceFee ==
    [][/\ \A v \in InitPayments :
              initialize_space_abort(v) =
                  IF v < SPACE_INIT_FEE THEN "EInsufficientPayment" ELSE "ok"
       /\ (last'.op = "initialize_space" /\ last'.result = "ok")
              => /\ last'.payment >= SPACE_INIT_FEE
                 /\ treasury' = treasury + SPACE_INIT_FEE
                 /\ last'.change = last'.payment - SPACE_INIT_FEE
                 /\ spaceRegistry'.spaces = Append(spaceRegistry.spaces, last'.space)
                 /\ spaceRegistry'.total_spaces = spaceRegistry.total_spaces + 1
       /\ (last'.op = "initialize_space" /\ last'.result # "ok")
              => /\ last'.result = "EInsufficientPayment"
                 /\ UNCHANGED <<treasury, spaceRegistry, spaces, ownerships>>
       /\ spaceRegistry'.total_spaces = Len(spaceRegistry'.spaces)
       /\ treasury' = SPACE_INIT_FEE * spaceRegistry'.total_spaces
      ]_vars

C19_Witness ==
    /\ last.op = "initialize_space"
    /\ last.result = "ok"
    /\ last.payment = SPACE_INIT_FEE + 7
    /\ last.change = 7
    /\ spaceRegistry.total_spaces = 2
    /\ treasury = 2 * SPACE_INIT_FEE

\* C18: renew_subscription aborts with ENotSubscriber for every caller other
\* than subscription.subscriber, whatever is paid, and with
\* EInsufficientPayment when the subscriber pays less than the price per day
\* of the presented space times additional_days; a renewal that aborts leaves
\* expires_at and duration_days of every Subscription as they were.
C18_RenewRefusals ==
    [][/\ \A a \in Addr, sp \in SpaceIds, vd \in Offers, s \in Subscriptions :
              LET res == renew_subscription_abort(a, subscriptions[s], vd[1], sp,
                                                  vd[2])
              IN  /\ subscriptions[s].subscriber # a => res = "ENotSubscriber"
                  /\ (/\ subscriptions[s].subscriber = a
                      /\ vd[1] < spaces[sp].subscription_price * vd[2])
                     => res = "EInsufficientPayment"
       /\ (last'.op = "renew_subscription" /\ last'.result # "ok")
              => /\ Len(subscriptions') = Len(subscriptions)
                 /\ \A s \in Subscriptions :
                        /\ subscriptions'[s].expires_at = subscriptions[s].expires_at
                        /\ subscriptions'[s].duration_days
                               = subscriptions[s].duration_days
       /\ (last'.op = "renew_subscription" /\ last'.result = "ok")
              => /\ subscriptions[last'.subscription].subscriber = last'.sender
                 /\ last'.payment >= last'.price * last'.additional_days
      ]_vars

C18_Witness ==
    /\ last.op = "renew_subscription"
    /\ last.result = "ENotSubscriber"
    /\ renewals > 0
    /\ \E s \in Subscriptions :
           /\ subscriptions[s].holder # subscriptions[s].subscriber
           /\ subscriptions[s].expires_at < U64_MAX
           /\ subscriptions[s].duration_days > 0

\* C17: subscribe aborts with ENoIdentity when the owner of the presented
\* Identity is not the caller, and with ENoAvatar when the caller owns it and
\* it has no avatar bound; it succeeds only for a caller owning the presented
\* Identity with an avatar bound, so every subscriber of an entry created by
\* subscribe is the owner of an Identity with a bound avatar.
C17_SubscribeEligibility ==
    [][/\ \A a \in Addr, sp \in SpaceIds, i \in 1..Len(identities), vd \in Offers :
              LET res == subscribe_abort(a, sp, identities[i], vd[1], vd[2])
              IN  /\ identities[i].owner # a => res = "ENoIdentity"
                  /\ (/\ identities[i].owner = a
                      /\ ~is_some(identities[i].avatar_blob_id))
                     => res = "ENoAvatar"
       /\ last'.op = "subscribe"
              => LET identity == identities[last'.identity]
                 IN  /\ identity.owner # last'.sender
                            => last'.result = "ENoIdentity"
                     /\ (/\ identity.owner = last'.sender
                         /\ ~is_some(identity.avatar_blob_id))
                            => last'.result = "ENoAvatar"
                     /\ last'.result = "ok"
                            => /\ identity.owner = last'.sender
                               /\ is_some(identity.avatar_blob_id)
                               /\ subscriptions'[last'.subscription].subscriber
                                      = last'.sender
       /\ \A s \in Subscriptions' :
              subscriptions'[s].expires_at # U64_MAX
              => \E i \in 1..Len(identities') :
                     /\ identities'[i].owner = subscriptions'[s].subscriber
                     /\ is_some(identities'[i].avatar_blob_id)
      ]_vars

C17_Witness ==
    /\ last.op = "subscribe"
    /\ last.result = "ENoIdentity"
    /\ identities[last.identity].holder = last.sender
    /\ is_some(identities[last.identity].avatar_blob_id)

EntryPoints ==
    {"mint_identity", "bind_avatar", "update_bio", "update_image",
     "initialize_space", "update_space_config", "add_video", "record_content",
     "subscribe", "renew_subscription"}

C21_FanRecordsFromSubscribe ==
    \A sp \in DOMAIN fanRegistry :
        \A fan \in DOMAIN fanRegistry[sp] :
            /\ HasEntry(sp, fan)
            /\ fanRegistry[sp][fan].owner = fan
            /\ contains(identityRegistry.identities, fan)
            /\ some(fanRegistry[sp][fan].avatar_blob_id)
                   = identities[identityRegistry.identities[fan]].avatar_blob_id

\* C22: a Subscription with expires_at = MAX keeps it for ever and is_expired
\* is false of it at every clock value: create_creator_subscription sets MAX,
\* and a renewal of such a subscription either succeeds leaving expires_at at
\* MAX (additional_days = 0) or aborts; the value never wraps.
C22_LifetimeNeverExpires ==
    [][/\ \A s \in Subscriptions :
              subscriptions[s].expires_at = U64_MAX
              => /\ subscriptions'[s].expires_at = U64_MAX
                 /\ ~is_expired(subscriptions'[s], now')
                 /\ \A t \in {0, now, U64_MAX} : ~is_expired(subscriptions[s], t)
                 /\ \A a \in Addr, sp \in SpaceIds, vd \in Offers :
                        renew_subscription_abort(a, subscriptions[s], vd[1], sp, vd[2])
                            = "ok"
                        => renew_expires_at(subscriptions[s].expires_at, now,
                                            vd[2] * ONE_DAY_MS) = U64_MAX
       /\ (last'.op = "create_creator_subscription" /\ last'.result = "ok")
              => subscriptions'[last'.subscription].expires_at = U64_MAX
      ]_vars

C22_Witness ==
    /\ RenewedOk(last)
    /\ last.before = U64_MAX
    /\ subscriptions[last.subscription].expires_at = U64_MAX
    /\ ticks > 0

\* C23: after a successful initialize_space by a registered principal, the
\* Identity of that principal has is_creator = true and total_creators counts
\* the promotion.
C23_InitPromotesCreator ==
    (/\ last.op = "initialize_space"
     /\ last.result = "ok"
     /\ contains(identityRegistry.identities, last.sender))
    => /\ identities[identityRegistry.identities[last.sender]].is_creator
       /\ identityRegistry.total_creators > 0

\* C24: total_creators grows by exactly one on every successful
\* initialize_space and is changed by nothing else, whoever the caller is and
\* however many spaces it has: total_creators equals total_spaces in every
\* state, and can exceed the number of distinct creators and total_identities.
C24_CreatorsCountSpaces ==
    [][/\ identityRegistry'.total_creators =
              identityRegistry.total_creators
                  + (IF last'.op = "initialize_space" /\ last'.result = "ok"
                     THEN 1 ELSE 0)
       /\ identityRegistry'.total_creators = spaceRegistry'.total_spaces
       /\ identityRegistry'.total_creators = Len(spaces')
      ]_vars

C24_Witness ==
    /\ identityRegistry.total_creators = MaxSpaces
    /\ identityRegistry.total_creators > identityRegistry.total_identities
    /\ identityRegistry.total_creators
           > Cardinality({spaces[sp].creator : sp \in SpaceIds})
    /\ identityRegistry.total_identities > 0

\* the number of (space, subscriber) entries of the nested index
EntryCount ==
    Cardinality({x \in SpaceIds \X Addr : HasEntry(x[1], x[2])})

\* C25: active_subscriptions is never decremented: in every state it equals
\* total_subscriptions and the number of (space, subscriber) entries of the
\* nested index; neither counter ever decreases, and neither a clock advance
\* nor renew_subscription changes the registry.
C25_ActiveCountsGrants ==
    [][/\ registry'.active_subscriptions = registry'.total_subscriptions
       /\ registry'.active_subscriptions = EntryCount'
       /\ registry'.active_subscriptions = Len(subscriptions')
       /\ registry'.active_subscriptions >= registry.active_subscriptions
       /\ registry'.total_subscriptions >= registry.total_subscriptions
       /\ last'.op \in {"clock", "renew_subscription"} => registry' = registry
      ]_vars

C25_Witness ==
    /\ last.op = "clock"
    /\ renewals > 0
    /\ registry.active_subscriptions = 1
    /\ \E s \in Subscriptions :
           /\ subscriptions[s].duration_days > 0
           /\ is_expired(subscriptions[s], now)

\* the value update_space_config leaves in a field: the argument when present
Updated(option, old) == IF is_some(option) THEN destroy_some(option) ELSE old

\* C26: update_space_config with a matching capability writes exactly the
\* fields whose argument is present, keeps every absent field, the video list,
\* the creator, the marketplace kiosk id and created_at, sets updated_at to
\* now, and changes no other Space and no Subscription: a new price leaves
\* the expires_at of existing subscriptions alone.
C26_UpdateConfigFrame ==
    [][(last'.op = "update_space_config" /\ last'.result = "ok")
       => LET u == last'.update
              old == spaces[last'.space]
              new == spaces'[last'.space]
          IN  /\ new.name = Updated(u.new_name, old.name)
              /\ new.description = Updated(u.new_description, old.description)
              /\ new.cover_image = Updated(u.new_cover_image, old.cover_image)
              /\ new.config_quilt = Updated(u.new_config_quilt, old.config_quilt)
              /\ new.subscription_price
                     = Updated(u.new_subscription_price, old.subscription_price)
              /\ new.video_blob_ids = old.video_blob_ids
              /\ new.creator = old.creator
              /\ new.marketplace_kiosk_id = old.marketplace_kiosk_id
              /\ new.created_at = old.created_at
              /\ new.updated_at = now
              /\ \A sp \in SpaceIds : sp # last'.space => spaces'[sp] = spaces[sp]
              /\ UNCHANGED <<subscriptions, registry, fanRegistry, identities,
                             identityRegistry, spaceRegistry, ownerships,
                             treasury, now>>
      ]_vars

C26_Witness ==
    /\ last.op = "update_space_config"
    /\ last.result = "ok"
    /\ is_some(last.update.new_subscription_price)
    /\ spaces[last.space].subscription_price # SetupPrice(last.space)
    /\ spaces[last.space].name = "name1"
    /\ spaces[last.space].updated_at > spaces[last.space].created_at
    /\ \E s \in Subscriptions :
           /\ subscriptions[s].space_id = last.space
           /\ subscriptions[s].duration_days > 0

\* a successful call of op on Identity i by the address that registered it
ByOwner(op, i, l) ==
    /\ l.op = op
    /\ l.result = "ok"
    /\ l.identity = i
    /\ l.sender = identities[i].owner

\* C27: the owner of an Identity never changes; its avatar, bio and image
\* change only in a successful bind_avatar, update_bio or update_image of its
\* owner; any other caller, the holder of a transferred Identity included,
\* gets ENotIdentityOwner from all three and the call changes nothing; a
\* successful bind_avatar leaves exactly the avatar it was given.
C27_OwnerOnlyEdits ==
    [][/\ \A i \in 1..Len(identities) :
             /\ identities'[i].owner = identities[i].owner
             /\ identities'[i].avatar_blob_id # identities[i].avatar_blob_id
                    => ByOwner("bind_avatar", i, last')
             /\ identities'[i].bio # identities[i].bio
                    => ByOwner("update_bio", i, last')
             /\ identities'[i].image_blob_id # identities[i].image_blob_id
                    => ByOwner("update_image", i, last')
             /\ ByOwner("bind_avatar", i, last')
                    => identities'[i].avatar_blob_id = some(last'.avatar)
             /\ \A a \in Addr \ {identities[i].owner} :
                    /\ bind_avatar_abort(a, identities[i]) = "ENotIdentityOwner"
                    /\ update_bio_abort(a, identities[i]) = "ENotIdentityOwner"
                    /\ \A img \in {"", "img2"} :
                           update_image_abort(a, identities[i], img)
                               = "ENotIdentityOwner"
       /\ last'.result = "ENotIdentityOwner" => UNCHANGED chain
      ]_vars

\* the holder of a transferred Identity was just refused, after its owner had
\* replaced the avatar it was registered with
C27_Witness ==
    /\ last.op \in {"bind_avatar", "update_bio", "update_image"}
    /\ last.result = "ENotIdentityOwner"
    /\ \E i \in 1..Len(identities) :
           /\ identities[i].holder # identities[i].owner
           /\ identities[i].avatar_blob_id = some("glb2")
           /\ identities[i].bio = "bio1"

\* C28: every Identity has a non-empty image_blob_id in every state;
\* mint_identity by an unregistered sender and update_image by the owner both
\* abort with EImageRequired on the empty string.
C28_ImageRequired ==
    /\ \A i \in 1..Len(identities) :
           /\ identities[i].image_blob_id # ""
           /\ update_image_abort(identities[i].owner, identities[i], "")
                  = "EImageRequired"
    /\ \A a \in Addr, av \in AvatarBlobs :
           ~contains(identityRegistry.identities, a)
               => mint_identity_abort(a, av, "") = "EImageRequired"

\* an update_image with the empty string was just refused while one address
\* is still unregistered, and an earlier update_image had replaced the image
C28_Witness ==
    /\ last.op = "update_image"
    /\ last.result = "EImageRequired"
    /\ \E a \in Addr : ~contains(identityRegistry.identities, a)
    /\ \E i \in 1..Len(identities) : identities[i].image_blob_id = "img2"

\* the decision of a recorded gate request l, read from the chain state, the
\* objects the request names, its sender and the clock
GateGrants(l) ==
    IF l.op = "seal_approve_as_creator"
    THEN ownerships[l.ownership].space_id = l.space
    ELSE /\ subscriptions[l.subscription].subscriber = l.sender
         /\ subscriptions[l.subscription].space_id = l.space
         /\ subscriptions[l.subscription].expires_at >= now

\* C29: every evaluation of either gate check grants exactly when GateGrants
\* holds of the request in the state and at the clock value it is evaluated
\* in, whatever was evaluated before, and leaves the chain state and the clock
\* as they were, so that a second evaluation of the same request against the
\* same state and clock gives the same result.
C29_GateIsPure ==
    [][last'.op \in {"seal_approve_as_creator", "seal_approve_as_subscriber"}
       => /\ (last'.result = "ok") = GateGrants(last')
          /\ UNCHANGED <<chain, now>>
      ]_vars

\* a subscriber check was refused for expiry alone, after time had passed
C29_Witness ==
    /\ last.op = "seal_approve_as_subscriber"
    /\ last.result = "ENotSubscriber"
    /\ subscriptions[last.subscription].subscriber = last.sender
    /\ subscriptions[last.subscription].space_id = last.space
    /\ ticks > 0

\* sender passes one of the two gate checks for the space with an object it
\* holds
SatisfiesGate(sender, sp) ==
    \/ \E o \in HeldOwnerships(sender) :
           seal_approve_as_creator_abort(sp, ownerships[o]) = "ok"
    \/ \E sub \in HeldSubscriptions(sender) :
           seal_approve_as_subscriber_abort(sender, sp, subscriptions[sub], now)
               = "ok"

\* C30: every transaction the client builds for a decryption request calls
\* subscription::seal_approve_as_creator or
\* subscription::seal_approve_as_subscriber, and a requester who satisfies
\* the gate predicate for the space is granted by the dry run.
\* Violated: both builders name functions the package does not have.
C30_ClientInvokesGate ==
    last.op \in {"decryptContent", "sealApproveBySubscription"}
        => /\ last.target \in {<<"subscription", "seal_approve_as_creator">>,
                                <<"subscription", "seal_approve_as_subscriber">>}
           /\ SatisfiesGate(last.sender, last.space) => last.result = "ok"

\* C31: whichever other preconditions fail with it, subscribe aborts with
\* ENoIdentity when the presented Identity is not the caller's, else with
\* ENoAvatar when it has no avatar, else with EAlreadySubscribed when the
\* registry has an entry for (space, caller), and with EInsufficientPayment
\* only when none of the three applies: an already subscribed caller who
\* pays too little gets EAlreadySubscribed.
C31_SubscribeFailureOrder ==
    /\ \A a \in Addr, sp \in SpaceIds, vd \in Offers, i \in 1..Len(identities) :
           LET res == subscribe_abort(a, sp, identities[i], vd[1], vd[2])
               short == vd[1] < spaces[sp].subscription_price * vd[2]
           IN  IF identities[i].owner # a THEN res = "ENoIdentity"
               ELSE IF identities[i].avatar_blob_id = none THEN res = "ENoAvatar"
               ELSE IF HasEntry(sp, a) THEN res = "EAlreadySubscribed"
               ELSE IF short THEN res = "EInsufficientPayment"
               ELSE res = "ok"
    /\ (last.op = "subscribe" /\ last.result = "EInsufficientPayment")
           => /\ identities[last.identity].owner = last.sender
              /\ identities[last.identity].avatar_blob_id # none
              /\ ~HasEntry(last.space, last.sender)

\* an already subscribed caller who offered too little was told
\* EAlreadySubscribed
C31_Witness ==
    /\ last.op = "subscribe"
    /\ last.result = "EAlreadySubscribed"
    /\ last.payment < last.price * last.duration_days

\* C32: every successful renew_subscription charges the price per day of the
\* space the subscription names, times additional_days.
\* Violated: the charge is computed from the space presented, which is not
\* compared with subscription.space_id.
C32_RenewChargedAtOwnSpace ==
    (last.op = "renew_subscription" /\ last.result = "ok")
        => last.charge
               = spaces[subscriptions[last.subscription].space_id]
                     .subscription_price * last.additional_days

\* C33: expires_at of a Subscription never decreases and changes only in a
\* successful renew_subscription of it, after which it is at least now; and
\* whenever the subscriber check grants an address that is not the creator
\* of the space, the time left on the subscription is within the days bought
\* for it (duration_days * ONE_DAY_MS).
\* Violated: a Subscription from create_creator_subscription, which any
\* address can call for any address, is granted with no day bought.
C33_PaidWindowsOnly ==
    [][/\ \A s \in Subscriptions :
              /\ subscriptions'[s].expires_at >= subscriptions[s].expires_at
              /\ subscriptions'[s].expires_at # subscriptions[s].expires_at
                     => /\ last'.op = "renew_subscription"
                        /\ last'.result = "ok"
                        /\ last'.subscription = s
                        /\ subscriptions'[s].expires_at >= now
       /\ (/\ last'.op = "seal_approve_as_subscriber"
           /\ last'.result = "ok"
           /\ spaces[last'.space].creator # last'.sender)
              => subscriptions[last'.subscription].expires_at - now
                     <= subscriptions[last'.subscription].duration_days
                            * ONE_DAY_MS
      ]_vars

\* the (space_id, subscriber) keys of the nested index
IndexEntries ==
    {k \in SpaceIds \X Addr : HasEntry(k[1], k[2])}

\* every key of the index names an existing Subscription with the key's
\* space_id and subscriber, and every Subscription is named by its own key
\* and by no other
IndexConsistent ==
    /\ DOMAIN registry.subscriptions \subseteq SpaceIds
    /\ \A sp \in DOMAIN registry.subscriptions :
           DOMAIN registry.subscriptions[sp] \subseteq Addr
    /\ \A k \in IndexEntries :
           LET s == registry.subscriptions[k[1]][k[2]]
           IN  /\ s \in Subscriptions
               /\ subscriptions[s].space_id = k[1]
               /\ subscriptions[s].subscriber = k[2]
    /\ \A s \in Subscriptions :
           {k \in IndexEntries : registry.subscriptions[k[1]][k[2]] = s}
               = {<<subscriptions[s].space_id, subscriptions[s].subscriber>>}

\* C34: in every state the index and the Subscription objects agree, entry
\* for entry, and no step, a transfer of the object included, changes the
\* space_id or the subscriber of a Subscription.
C34_IndexMatchesSubscriptions ==
    [][/\ IndexConsistent
       /\ IndexConsistent'
       /\ \A s \in Subscriptions :
              /\ subscriptions'[s].space_id = subscriptions[s].space_id
              /\ subscriptions'[s].subscriber = subscriptions[s].subscriber
      ]_vars

\* two entries of one space, the paid Subscription just handed to another
\* address
C34_Witness ==
    /\ Len(subscriptions) = 2
    /\ subscriptions[1].space_id = subscriptions[2].space_id
    /\ last.op = "transfer_subscription"
    /\ subscriptions[last.subscription].holder
           # subscriptions[last.subscription].subscriber
    /\ subscriptions[last.subscription].duration_days > 0

\* a * b, resp. a + b, is above the largest u64
ProductExceeds(a, b) == a > 0 /\ b > U64_MAX \div a
SumExceeds(a, b) == b > U64_MAX - a

\* C35: subscribe and renew_subscription fail whenever the price times the
\* days, the days times ONE_DAY_MS, or the sum of that extension with the
\* time it is added to is above the largest u64, and such a failure changes
\* nothing; a successful call charges the exact product and leaves
\* expires_at at or after now.
C35_NoWraparound ==
    [][/\ \A a \in Addr, sp \in SpaceIds, vd \in LongOffers :
              LET price == spaces[sp].subscription_price
                  days == vd[2]
              IN  /\ \A i \in 1..Len(identities) :
                         (\/ ProductExceeds(price, days)
                          \/ ProductExceeds(days, ONE_DAY_MS)
                          \/ SumExceeds(now, days * ONE_DAY_MS))
                            => subscribe_abort(a, sp, identities[i], vd[1], days)
                                   # "ok"
                  /\ \A s \in Subscriptions :
                         (\/ ProductExceeds(price, days)
                          \/ ProductExceeds(days, ONE_DAY_MS)
                          \/ SumExceeds(IF subscriptions[s].expires_at < now
                                         THEN now
                                         ELSE subscriptions[s].expires_at,
                                        days * ONE_DAY_MS))
                            => renew_subscription_abort(a, subscriptions[s], vd[1],
                                                        sp, days) # "ok"
       /\ last'.result = "ARITHMETIC_ERROR" => UNCHANGED <<chain, now>>
       /\ (last'.op = "subscribe" /\ last'.result = "ok")
              => /\ last'.charge = last'.price * last'.duration_days
                 /\ subscriptions'[last'.subscription].expires_at
                        = now + last'.duration_days * ONE_DAY_MS
                 /\ subscriptions'[last'.subscription].expires_at >= now
       /\ (last'.op = "renew_subscription" /\ last'.result = "ok")
              => /\ last'.charge = last'.price * last'.additional_days
                 /\ subscriptions'[last'.subscription].expires_at >= now
                 /\ subscriptions'[last'.subscription].expires_at
                        >= subscriptions[last'.subscription].expires_at
      ]_vars

\* a paid subscribe of 24 days was refused for the overflow of its expiry,
\* where a paid subscription already exists and was renewed
C35_Witness ==
    /\ last.op = "subscribe"
    /\ last.result = "ARITHMETIC_ERROR"
    /\ last.duration_days = 24
    /\ last.price > 0
    /\ last.payment >= last.price * last.duration_days
    /\ renewals > 0

\* C38: for a connected account that is not the creator of the viewed space,
\* useSpaceAccess and useSpaceSubscription report isSubscribed exactly when
\* the account owns a Subscription whose space_id is that space, and
\* useSpaceAccess then reports accessStatus "subscriber", else "visitor".
\* Violated: both hooks read a field the Subscription does not have.
C38_AccessAgreesWithChain ==
    (/\ last.op \in {"useSpaceAccess", "useSpaceSubscription"}
     /\ last.account # spaces[last.space].creator)
        => LET owns == \E s \in HeldSubscriptions(last.account) :
                           subscriptions[s].space_id = last.space
           IN  /\ last.isSubscribed = owns
               /\ last.op = "useSpaceAccess"
                      => last.accessStatus
                             = IF owns THEN "subscriber" ELSE "visitor"

\* C36: once the first attempt has finished, the inputs have changed and the
\* effect has run for the inputs of the latest render, a load for those
\* inputs has been started: the attempt behind content and error is the one
\* for the current inputs.
\* Violated: the effect that runs after the change returns at once, the ref
\* set by the first run never being cleared.
C36_ReloadsOnInputChange ==
    (/\ secureContent.mounted
     /\ secureContent.changes > 0
     /\ ~secureContent.effectDue
     /\ secureContent.pending = "none")
        => secureContent.attempt = some(secureContent.inputs)

\* C37 as stated: data and error, when set, are those of the most recently
\* started fetch.
\* Violated: data set by a fetch that settled while it was the latest stays
\* while a later fetch is pending and after it fails.
C37_NeverStale ==
    asyncData.mounted
        => /\ asyncData.data # none
                  => destroy_some(asyncData.data).from = Len(asyncData.fetches)
           /\ asyncData.error # none
                  => destroy_some(asyncData.error).from = Len(asyncData.fetches)

\* C37, amended: data and error are written only by the most recently
\* started fetch; a fetch overtaken while pending changes neither them nor
\* loading when it settles; and loading is false once the latest fetch has
\* settled.
C37_OnlyLatestFetchWrites ==
    [][(asyncData.mounted /\ asyncData'.mounted)
       => LET latest == Len(asyncData.fetches)
          IN  /\ asyncData'.data # asyncData.data
                     => destroy_some(asyncData'.data).from = latest
              /\ (asyncData'.error # asyncData.error /\ asyncData'.error # none)
                     => destroy_some(asyncData'.error).from = latest
              /\ \A f \in 1..latest :
                     (/\ asyncData'.fetches[f].settled
                      /\ ~asyncData.fetches[f].settled)
                        => IF f < latest
                           THEN /\ asyncData'.data = asyncData.data
                                /\ asyncData'.error = asyncData.error
                                /\ asyncData'.loading = asyncData.loading
                           ELSE ~asyncData'.loading
      ]_vars

\* a fetch overtaken by a change of the dependencies has settled, after the
\* fetch that replaced it: data is that of the replacement, loading is false
C37_Witness ==
    /\ asyncData.mounted
    /\ ~asyncData.loading
    /\ Len(asyncData.fetches) = 2
    /\ asyncData.fetches[1].settled
    /\ asyncData.fetches[1].dependencies # asyncData.fetches[2].dependencies
    /\ asyncData.data = some([from |-> 2,
                              dependencies |-> asyncData.dependencies])
    /\ asyncData.error = none
====
